---------------------------- MODULE Spec2Model ----------------------------
(***************************************************************************)
(* A model of the debug-format parser of src/src/lib.rs.                   *)
(*                                                                         *)
(* A text is a sequence of one-character strings.  A parser is an          *)
(* operator P(s, p): s is the whole input, p the 1-based index of the next *)
(* unread character (Len(s) + 1 at the end of the input), so the Rust      *)
(* remainder &s[p-1..] is the pair (s, p).  A parser returns a record      *)
(*      [k |-> "Ok", p |-> next position, v |-> output]                    *)
(*      [k |-> "Error"]    nom::Err::Error, recoverable                    *)
(*      [k |-> "Failure"]  nom::Err::Failure, fatal (after a cut)          *)
(* The nom combinators (alt, preceded, cut, separated_list0, escaped, ...) *)
(* are unfolded at each place the source uses them, with the semantics of  *)
(* nom 7.1.                                                                *)
(***************************************************************************)
EXTENDS Integers, Sequences, FiniteSets, TLC

\* ------------------------------------------------------------ results

Ok(p, v) == [k |-> "Ok", p |-> p, v |-> v]
Error == [k |-> "Error", p |-> 0, v |-> <<>>]
Failure == [k |-> "Failure", p |-> 0, v |-> <<>>]

\* cut(parser): a recoverable error becomes fatal.
cut(r) == IF r.k = "Error" THEN Failure ELSE r

\* ------------------------------------------------------------ DataModel

Null == [t |-> "Null"]
Boolean(b) == [t |-> "Boolean", b |-> b]
Float(f) == [t |-> "Float", f |-> f]
String(x) == [t |-> "String", s |-> x]
Map(m) == [t |-> "Map", m |-> m]
Vec(items) == [t |-> "Vec", items |-> items]

\* map(parser, f): f applied to the output of a successful parse.
MapNull(r) == IF r.k = "Ok" THEN Ok(r.p, Null) ELSE r
MapBoolean(r) == IF r.k = "Ok" THEN Ok(r.p, Boolean(r.v)) ELSE r
MapFloat(r) == IF r.k = "Ok" THEN Ok(r.p, Float(r.v)) ELSE r
MapString(r) == IF r.k = "Ok" THEN Ok(r.p, String(r.v)) ELSE r
MapMap(r) == IF r.k = "Ok" THEN Ok(r.p, Map(r.v)) ELSE r
MapVec(r) == IF r.k = "Ok" THEN Ok(r.p, Vec(r.v)) ELSE r

\* ------------------------------------------------------------ characters

SpaceChars == {" ", "\t", "\r", "\n"}
DigitSeq == <<"0", "1", "2", "3", "4", "5", "6", "7", "8", "9">>
DigitChars == {DigitSeq[i] : i \in 1..10}
AlphaChars ==
    {"a", "b", "c", "d", "e", "f", "g", "h", "i", "j", "k", "l", "m",
     "n", "o", "p", "q", "r", "s", "t", "u", "v", "w", "x", "y", "z",
     "A", "B", "C", "D", "E", "F", "G", "H", "I", "J", "K", "L", "M",
     "N", "O", "P", "Q", "R", "S", "T", "U", "V", "W", "X", "Y", "Z"}
\* char_checker's class: item.is_alphanum() || item == '_'
IdentChars == AlphaChars \cup DigitChars \cup {"_"}
\* num_checker's class without the `.`
NumCharsDigitsOnly == DigitChars

\* num_checker's class: item.is_ascii_digit() || item == '.'
NumChars == DigitChars \cup {"."}
\* char_checker_wc's stops without the `]`
WildcardStopsNoBracket == {",", "}", ")"}

\* char_checker_wc stops at these
WildcardStops == {",", "}", ")", "]"}
\* one_of("\"n\\"), the characters that may follow the control character
Escapable == {"\"", "n", "\\"}
ControlChar == "\\"

End(s) == Len(s) + 1
At(s, p) == IF p <= Len(s) THEN s[p] ELSE ""
Slice(s, p, q) == SubSeq(s, p, q - 1)

\* tag(t): the input at p starts with the text t.
StartsWith(s, p, t) ==
    /\ p + Len(t) - 1 <= Len(s)
    /\ \A i \in 1..Len(t) : s[p + i - 1] = t[i]

\* The first position from p on whose character is not in cls.
RECURSIVE ScanIn(_, _, _)
ScanIn(s, p, cls) ==
    IF p <= Len(s) /\ s[p] \in cls THEN ScanIn(s, p + 1, cls) ELSE p

\* The first position from p on whose character is in stops.
RECURSIVE ScanUntil(_, _, _)
ScanUntil(s, p, stops) ==
    IF p <= Len(s) /\ s[p] \notin stops THEN ScanUntil(s, p + 1, stops) ELSE p

\* split_at_position1_complete: one character or more, up to position q.
Split1(s, p, q) == IF q = p THEN Error ELSE Ok(q, Slice(s, p, q))

\* split_at_position_complete: any number of characters, up to position q.
Split0(s, p, q) == Ok(q, Slice(s, p, q))

\* ------------------------------------------------------------ lexical primitives

(***************************************************************************)
(* An intermediate result is handed on as an operator argument: a parser   *)
(* that runs a after b is written A(s, b(s, p)), with A the rest of the    *)
(* sequence.                                                               *)
(***************************************************************************)

\* take_while(" \t\r\n"): never fails.
spacer(s, p) == Split0(s, p, ScanIn(s, p, SpaceChars))

char_checker(s, p) == Split1(s, p, ScanIn(s, p, IdentChars))

num_checker(s, p) == Split1(s, p, ScanIn(s, p, NumChars))

\* char_checker_wc accepting only what char_checker accepts
char_checker_wc_ident(s, p) == Split1(s, p, ScanIn(s, p, IdentChars))

char_checker_wc(s, p) == Split1(s, p, ScanUntil(s, p, WildcardStops))

\* everything_none_space stopping where the wildcard stops
everything_none_stop(s, p) == Split1(s, p, ScanUntil(s, p, WildcardStops))

everything_none_space(s, p) == Split1(s, p, ScanUntil(s, p, {" "}))

\* The `normal` parser handed to escaped: "ident" is char_checker, "wc" is
\* char_checker_wc.
Normal(kind, s, p) ==
    IF kind = "ident" THEN char_checker(s, p) ELSE char_checker_wc(s, p)

\* nom's escaped(normal, '\\', one_of("\"n\\")), from position i of a scan
\* that began at start.  The output is the recognized slice of the input,
\* backslashes included (nothing is unescaped).
RECURSIVE escaped_loop(_, _, _, _)

\* One turn of escaped's loop at position i, n being normal's result there.
escaped_step(kind, s, start, i, n) ==
    IF n.k = "Ok" THEN
        IF n.p > Len(s) THEN Ok(End(s), Slice(s, start, End(s)))
        ELSE escaped_loop(kind, s, start, n.p)
    ELSE IF s[i] = ControlChar THEN
        IF i >= Len(s) THEN Error
        ELSE IF s[i + 1] \in Escapable THEN
            IF i + 2 > Len(s) THEN Ok(End(s), Slice(s, start, End(s)))
            ELSE escaped_loop(kind, s, start, i + 2)
        ELSE Error
    ELSE IF i = start THEN Error
    ELSE Ok(i, Slice(s, start, i))

escaped_loop(kind, s, start, i) ==
    IF i > Len(s) THEN Ok(End(s), Slice(s, start, End(s)))
    ELSE escaped_step(kind, s, start, i, Normal(kind, s, i))

escaped(kind, s, p) == escaped_loop(kind, s, p, p)

parse_str(s, p) == escaped("ident", s, p)

\* ------------------------------------------------------------ scalars

parse_bool(s, p) ==
    IF StartsWith(s, p, <<"t", "r", "u", "e">>) THEN Ok(p + 4, TRUE)
    ELSE IF StartsWith(s, p, <<"f", "a", "l", "s", "e">>) THEN Ok(p + 5, FALSE)
    ELSE Error

parse_null(s, p) ==
    IF StartsWith(s, p, <<"N", "o", "n", "e">>) THEN Ok(p + 4, <<>>) ELSE Error

\* cut(terminated(parse_str, char('"'))), body being parse_str's result
quoted_close(s, body) ==
    IF body.k # "Ok" THEN Failure
    ELSE IF At(s, body.p) # "\"" THEN Failure
    ELSE Ok(body.p + 1, body.v)

\* lib.rs's own parse_string (the quoted keys of maps):
\* preceded(char('"'), cut(terminated(parse_str, char('"'))))
parse_string(s, p) ==
    IF At(s, p) # "\"" THEN Error ELSE quoted_close(s, parse_str(s, p + 1))

\* string::parse_string, the quoted-string value: a leading quote, then a
\* committed body of characters other than the quote, a backslash followed
\* by one of " n \ being one escaped unit, then the closing quote.  The
\* output is the body unescaped.
Unescape(c) == IF c = "n" THEN "\n" ELSE c

RECURSIVE string_body(_, _, _)
string_body(s, i, acc) ==
    IF i > Len(s) THEN Failure
    ELSE IF s[i] = "\"" THEN Ok(i + 1, acc)
    ELSE IF s[i] = ControlChar THEN
        IF At(s, i + 1) \in Escapable
        THEN string_body(s, i + 2, Append(acc, Unescape(s[i + 1])))
        ELSE Failure
    ELSE string_body(s, i + 1, Append(acc, s[i]))

string_parse_string(s, p) ==
    IF At(s, p) # "\"" THEN Error ELSE string_body(s, p + 1, <<>>)

\* separated_list1(tag(sep), num_checker), after its first element: a
\* separator that no element follows is given back.
RECURSIVE num_list_loop(_, _, _, _)

\* r is num_checker's result after the separator at i.
num_list_step(s, i, sep, acc, r) ==
    IF r.k = "Ok" THEN num_list_loop(s, r.p, sep, Append(acc, r.v))
    ELSE Ok(i, acc)

num_list_loop(s, i, sep, acc) ==
    IF At(s, i) # sep THEN Ok(i, acc)
    ELSE num_list_step(s, i, sep, acc, num_checker(s, i + 1))

num_list_first(s, sep, r) ==
    IF r.k # "Ok" THEN Error ELSE num_list_loop(s, r.p, sep, <<r.v>>)

separated_list1_num(s, p, sep) == num_list_first(s, sep, num_checker(s, p))

\* [&str]::join(sep)
RECURSIVE Join(_, _)
Join(groups, sep) ==
    IF Len(groups) = 0 THEN <<>>
    ELSE IF Len(groups) = 1 THEN groups[1]
    ELSE groups[1] \o <<sep>> \o Join(Tail(groups), sep)

\* the closure of parse_datetime's map: the groups joined again
datetime_join(date, time) ==
    IF time.k # "Ok" THEN Error
    ELSE Ok(time.p, Join(date.v, "-") \o <<" ">> \o Join(time.v, ":"))

\* separated_pair(.., tag(" "), ..) after its first list
datetime_time(s, date) ==
    IF date.k # "Ok" THEN Error
    ELSE IF At(s, date.p) # " " THEN Error
    ELSE datetime_join(date, separated_list1_num(s, date.p + 1, ":"))

parse_datetime(s, p) == datetime_time(s, separated_list1_num(s, p, "-"))

\* ------------------------------------------------------------ numbers

(***************************************************************************)
(* An f64 is modelled by its shortest decimal: [cls, neg, m, e] with       *)
(*   cls  "finite", "inf" or "nan"                                         *)
(*   neg  the sign bit                                                     *)
(*   m    for a finite value that is not zero, the digits (most            *)
(*        significant first, no zero at either end) of the shortest        *)
(*        decimal m * 10^e that parses to this f64, the one nearest to the *)
(*        f64 when there are several; <<0>> otherwise                      *)
(* Two finite values are the same f64 exactly when these agree; 0.0 and    *)
(* -0.0 differ in neg.  The model's = is the identity of the f64, not its  *)
(* PartialEq: see PartialEq below.                                         *)
(***************************************************************************)
F64(cls, neg, m, e) == [cls |-> cls, neg |-> neg, m |-> m, e |-> e]

Zero(neg) == F64("finite", neg, <<0>>, 0)
Inf(neg) == F64("inf", neg, <<0>>, 0)
NaN == F64("nan", FALSE, <<0>>, 0)

\* f64: the significand has 53 bits; a finite value is k * 2^b with
\* k < 2^53 and MinExp <= b <= MaxExp.
MinExp == -1074
MaxExp == 971
Pow52 == <<4, 5, 0, 3, 5, 9, 9, 6, 2, 7, 3, 7, 0, 4, 9, 6>>
Pow53 == <<9, 0, 0, 7, 1, 9, 9, 2, 5, 4, 7, 4, 0, 9, 9, 2>>

\* Every decimal of at most 15 significant digits parses to an f64 of its
\* own (f64::DIGITS), as long as the f64 is normal.
F64Digits == 15

\* 17 significant digits tell any two f64 apart.
F64MaxDigits == 17

DigitVal(c) == CHOOSE i \in 0..9 : DigitSeq[i + 1] = c

\* The digits that s[p..q-1] spell.
Digits(s, p, q) == <<>> \o [j \in 1..(q - p) |-> DigitVal(s[p + j - 1])]

Zeros(n) == <<>> \o [j \in 1..n |-> 0]

\* The first index from i on of a digit that is not 0 (Len + 1 when none).
RECURSIVE FirstNonZero(_, _)
FirstNonZero(d, i) ==
    IF i <= Len(d) /\ d[i] = 0 THEN FirstNonZero(d, i + 1) ELSE i

\* The last index up to i of a digit that is not 0 (0 when none).
RECURSIVE LastNonZero(_, _)
LastNonZero(d, i) ==
    IF i >= 1 /\ d[i] = 0 THEN LastNonZero(d, i - 1) ELSE i

\* a < b, for natural numbers written without leading zeros
DigitsLess(a, b) ==
    \/ Len(a) < Len(b)
    \/ /\ Len(a) = Len(b)
       /\ \E i \in 1..Len(a) :
              /\ a[i] < b[i]
              /\ \A j \in 1..(i - 1) : a[j] = b[j]

\* The last index of a digit that is not 9 (0 when none).
RECURSIVE LastNonNine(_, _)
LastNonNine(d, i) ==
    IF i >= 1 /\ d[i] = 9 THEN LastNonNine(d, i - 1) ELSE i

\* d + 1, l being LastNonNine(d, Len(d))
IncAt(d, l) ==
    IF l = 0 THEN <<1>> \o Zeros(Len(d))
    ELSE <<>> \o [j \in 1..Len(d) |->
                      IF j < l THEN d[j] ELSE IF j = l THEN d[j] + 1 ELSE 0]

Inc(d) == IncAt(d, LastNonNine(d, Len(d)))

(***************************************************************************)
(* Exact decimal arithmetic.  A number is [d, n]: the digits d, the first  *)
(* n of them before the decimal point (none of them a leading zero).       *)
(***************************************************************************)
Fixed(d, n) == [d |-> d, n |-> n]

\* m * 10^e, m without leading zeros
FixedOf(m, e) ==
    IF e >= 0 THEN Fixed(m \o Zeros(e), Len(m) + e)
    ELSE IF Len(m) + e > 0 THEN Fixed(m, Len(m) + e)
    ELSE Fixed(Zeros(-(Len(m) + e)) \o m, 0)

DoubleDigits(d) ==
    <<>> \o [j \in 1..Len(d) |->
                 ((2 * d[j]) % 10)
                     + (IF j < Len(d) /\ d[j + 1] >= 5 THEN 1 ELSE 0)]

\* 2 * x
Double(x) ==
    IF Len(x.d) = 0 THEN x
    ELSE IF x.d[1] >= 5 THEN Fixed(<<1>> \o DoubleDigits(x.d), x.n + 1)
    ELSE Fixed(DoubleDigits(x.d), x.n)

HalveDigits(d) ==
    <<>> \o [j \in 1..Len(d) |->
                 (d[j] \div 2) + (IF j > 1 /\ d[j - 1] % 2 = 1 THEN 5 ELSE 0)]

\* h is HalveDigits(x.d), with the digit a last odd digit leaves
HalveTrim(x, h) ==
    IF x.n > 0 /\ h[1] = 0 THEN Fixed(Tail(h), x.n - 1) ELSE Fixed(h, x.n)

\* x / 2
Halve(x) ==
    IF Len(x.d) = 0 THEN x
    ELSE IF x.d[Len(x.d)] % 2 = 1
        THEN HalveTrim(x, HalveDigits(x.d) \o <<5>>)
    ELSE HalveTrim(x, HalveDigits(x.d))

\* x * 2^n
RECURSIVE Times2(_, _)
Times2(x, n) ==
    IF n = 0 \/ Len(x.d) = 0 THEN x
    ELSE IF n = 1 THEN Double(x)
    ELSE Times2(Times2(x, n \div 2), n - n \div 2)

\* x / 2^n
RECURSIVE Over2(_, _)
Over2(x, n) ==
    IF n = 0 \/ Len(x.d) = 0 THEN x
    ELSE IF n = 1 THEN Halve(x)
    ELSE Over2(Over2(x, n \div 2), n - n \div 2)

\* x * 2^b
Scale(x, b) == IF b >= 0 THEN Times2(x, b) ELSE Over2(x, -b)

IntPart(x) == SubSeq(x.d, 1, x.n)

\* x's fraction is more than a half, or a half and x's integer part is odd
RoundsUp(x) ==
    /\ Len(x.d) > x.n
    /\ \/ x.d[x.n + 1] > 5
       \/ /\ x.d[x.n + 1] = 5
          /\ \/ \E j \in (x.n + 2)..Len(x.d) : x.d[j] # 0
             \/ x.n > 0 /\ x.d[x.n] % 2 = 1

(***************************************************************************)
(* The f64 nearest to a decimal (ties to the even significand), as Rust's  *)
(* str::parse::<f64> returns it: [k, b] for k * 2^b, k written in digits   *)
(* (<<>> is 0), 2^52 <= k < 2^53 unless b = MinExp; b > MaxExp stands for  *)
(* a value too large for an f64.                                           *)
(***************************************************************************)

\* x is value / 2^b: b is made the exponent that leaves 53 bits before the
\* point, or MinExp
RECURSIVE Align(_, _)
Align(x, b) ==
    IF ~DigitsLess(IntPart(x), Pow53) THEN Align(Halve(x), b + 1)
    ELSE IF DigitsLess(IntPart(x), Pow52) /\ b > MinExp
        THEN Align(Double(x), b - 1)
    ELSE [x |-> x, b |-> b]

\* The integer part rounded up may be 2^53
Rounded(a) ==
    IF RoundsUp(a.x) THEN
        IF Inc(IntPart(a.x)) = Pow53 THEN [k |-> Pow52, b |-> a.b + 1]
        ELSE [k |-> Inc(IntPart(a.x)), b |-> a.b]
    ELSE [k |-> IntPart(a.x), b |-> a.b]

\* A first exponent for 10^(sci - 1) <= value < 10^sci: about
\* log2(value) - 52, not below MinExp
Estimate(sci) ==
    IF (((sci - 1) * 3322) \div 1000) - 52 < MinExp THEN MinExp
    ELSE (((sci - 1) * 3322) \div 1000) - 52

\* The f64 nearest to m * 10^e, m without leading zeros
Nearest(m, e) ==
    Rounded(Align(Scale(FixedOf(m, e), -Estimate(Len(m) + e)),
                  Estimate(Len(m) + e)))

(***************************************************************************)
(* The shortest decimal that parses to the f64 k * 2^b, the nearest one    *)
(* when there are several (what ryu prints, and the model's name of the    *)
(* f64).                                                                   *)
(***************************************************************************)

\* [m, e] for m * 10^e, zeros at either end of d dropped: d's digit at
\* index j counts 10^(lastpow + Len(d) - j)
DecimalOf(d, lastpow) ==
    [m |-> SubSeq(d, FirstNonZero(d, 1), LastNonZero(d, Len(d))),
     e |-> lastpow + Len(d) - LastNonZero(d, Len(d))]

\* k * 2^b, exactly
Exact(kb) == Scale(FixedOf(kb.k, 0), kb.b)

ExactDecimal(x) == DecimalOf(x.d, x.n - Len(x.d))

\* The first n digits of X.m, and that plus one in the last place
Below(X, n) == [m |-> SubSeq(X.m, 1, n), e |-> X.e + Len(X.m) - n]
Above(X, n) == [m |-> Inc(SubSeq(X.m, 1, n)), e |-> X.e + Len(X.m) - n]

ParsesTo(c, kb) == Nearest(c.m, c.e) = kb

\* X is nearer to Above(X, n) than to Below(X, n); a tie goes to the even
\* last digit
NearerAbove(X, n) ==
    \/ X.m[n + 1] > 5
    \/ /\ X.m[n + 1] = 5
       /\ \/ \E j \in (n + 2)..Len(X.m) : X.m[j] # 0
          \/ X.m[n] % 2 = 1

RECURSIVE ShortestFrom(_, _, _)
ShortestFrom(X, kb, n) ==
    IF Len(X.m) <= n \/ n > F64MaxDigits THEN X
    ELSE IF ParsesTo(Below(X, n), kb) /\ ParsesTo(Above(X, n), kb)
        THEN IF NearerAbove(X, n) THEN Above(X, n) ELSE Below(X, n)
    ELSE IF ParsesTo(Below(X, n), kb) THEN Below(X, n)
    ELSE IF ParsesTo(Above(X, n), kb) THEN Above(X, n)
    ELSE ShortestFrom(X, kb, n + 1)

\* A normal f64 has at most one decimal of F64Digits digits or fewer: the
\* search starts there, and at one digit for a subnormal f64.
Shortest(kb) ==
    ShortestFrom(ExactDecimal(Exact(kb)), kb,
                 IF DigitsLess(kb.k, Pow52) THEN 1 ELSE F64Digits)

\* c is the shortest decimal, zeros at the end of c.m not yet dropped
Named(neg, c) ==
    F64("finite", neg, DecimalOf(c.m, c.e).m, DecimalOf(c.m, c.e).e)

\* The f64 k * 2^b as the model has it
FromBits(neg, kb) ==
    IF kb.b > MaxExp THEN Inf(neg)
    ELSE IF Len(kb.k) = 0 THEN Zero(neg)
    ELSE Named(neg, Shortest(kb))

\* The f64 of (-1)^neg * m * 10^e, m without zeros at either end: beyond
\* 10^310 the f64 is infinite, below 10^-331 zero; a decimal of at most
\* F64Digits digits between 10^-307 and 10^308 is its f64's shortest.
Finite(neg, m, e) ==
    IF Len(m) + e > 310 THEN Inf(neg)
    ELSE IF Len(m) + e < -330 THEN Zero(neg)
    ELSE IF Len(m) <= F64Digits /\ Len(m) + e >= -306 /\ Len(m) + e <= 308
        THEN F64("finite", neg, m, e)
    ELSE FromBits(neg, Nearest(m, e))

\* str::parse::<f64> of the recognised text: the sign, the digits d of the
\* integer part and the fraction, and e, the exponent less the number of
\* fraction digits
parse_to(neg, d, e) ==
    IF FirstNonZero(d, 1) > Len(d) THEN Zero(neg)
    ELSE Finite(neg, DecimalOf(d, e).m, DecimalOf(d, e).e)

\* f64's PartialEq: NaN equals nothing, 0.0 equals -0.0
f64_eq(x, y) ==
    /\ x.cls # "nan"
    /\ y.cls # "nan"
    /\ \/ x = y
       \/ x = Zero(~y.neg) /\ y = Zero(y.neg)

\* #[derive(PartialEq)] of DataModel
RECURSIVE PartialEq(_, _)
PartialEq(a, b) ==
    /\ a.t = b.t
    /\ CASE a.t = "Float" -> f64_eq(a.f, b.f)
         [] a.t = "Vec" ->
                /\ Len(a.items) = Len(b.items)
                /\ \A i \in 1..Len(a.items) : PartialEq(a.items[i], b.items[i])
         [] a.t = "Map" ->
                /\ DOMAIN a.m = DOMAIN b.m
                /\ \A key \in DOMAIN a.m : PartialEq(a.m[key], b.m[key])
         [] OTHER -> a = b

\* str::parse::<f64> reads the exponent's digits into a number that a digit
\* changes only while the number is below ExpStop (0x10000): the digits
\* after that are read and dropped.
ExpStop == 65536

RECURSIVE exponent_from(_, _, _)
exponent_from(d, i, acc) ==
    IF i > Len(d) THEN acc
    ELSE IF acc < ExpStop THEN exponent_from(d, i + 1, 10 * acc + d[i])
    ELSE exponent_from(d, i + 1, acc)

\* The exponent the digits d spell, as str::parse::<f64> reads it
ExpValue(d) == exponent_from(d, 1, 0)

Lower(c) ==
    IF c = "N" THEN "n" ELSE IF c = "A" THEN "a" ELSE IF c = "I" THEN "i"
    ELSE IF c = "F" THEN "f" ELSE c

\* tag_no_case(t)
StartsWithNoCase(s, p, t) ==
    /\ p + Len(t) - 1 <= Len(s)
    /\ \A i \in 1..Len(t) : Lower(s[p + i - 1]) = t[i]

(***************************************************************************)
(* nom's recognize_float, with the f64 its text parses to:                 *)
(*   opt(sign) (digit1 opt('.' opt(digit1)) | '.' digit1)                  *)
(*   opt((e|E) opt(sign) cut(digit1))                                      *)
(* neg: the sign is '-'; m, e: the mantissa read so far is the digits m    *)
(* times 10^e.                                                             *)
(***************************************************************************)

\* cut(digit1) of the exponent: its digits are s[x0..x-1], xneg its sign.
float_exp_digits(s, neg, m, e, xneg, x0, x) ==
    IF x = x0 THEN Failure
    ELSE Ok(x, parse_to(neg, m, e + (IF xneg THEN -1 ELSE 1)
                                        * ExpValue(Digits(s, x0, x))))

\* opt(sign) of the exponent, at x0
float_exp_sign(s, neg, m, e, x0) ==
    IF At(s, x0) \in {"+", "-"}
    THEN float_exp_digits(s, neg, m, e, At(s, x0) = "-", x0 + 1,
                          ScanIn(s, x0 + 1, DigitChars))
    ELSE float_exp_digits(s, neg, m, e, FALSE, x0, ScanIn(s, x0, DigitChars))

\* opt((e|E) ..) at f, the end of the mantissa
float_exp(s, neg, m, e, f) ==
    IF At(s, f) \in {"e", "E"} THEN float_exp_sign(s, neg, m, e, f + 1)
    ELSE Ok(f, parse_to(neg, m, e))

\* the fraction's digits are s[d..f-1], after the integer part's digits int
float_frac(s, neg, int, d, f) ==
    float_exp(s, neg, int \o Digits(s, d, f), -(f - d), f)

\* '.' digit1, the dot at p1 and its digits up to f
float_dot_first(s, neg, p1, f) ==
    IF f = p1 + 1 THEN Error ELSE float_frac(s, neg, <<>>, p1 + 1, f)

\* the integer digits are s[p1..d-1]
float_int(s, neg, p1, d) ==
    IF d > p1 THEN
        IF At(s, d) = "."
        THEN float_frac(s, neg, Digits(s, p1, d), d + 1,
                        ScanIn(s, d + 1, DigitChars))
        ELSE float_exp(s, neg, Digits(s, p1, d), 0, d)
    ELSE IF At(s, p1) = "."
        THEN float_dot_first(s, neg, p1, ScanIn(s, p1 + 1, DigitChars))
    ELSE Error

recognize_float(s, p) ==
    IF At(s, p) \in {"+", "-"}
    THEN float_int(s, At(s, p) = "-", p + 1, ScanIn(s, p + 1, DigitChars))
    ELSE float_int(s, FALSE, p, ScanIn(s, p, DigitChars))

\* recognize_float_or_exceptions after recognize_float's result r: the
\* texts nan and inf in any case of letters (infinity is never reached:
\* inf matches first).
float_or_exceptions(s, p, r) ==
    IF r.k # "Error" THEN r
    ELSE IF StartsWithNoCase(s, p, <<"n", "a", "n">>) THEN Ok(p + 3, NaN)
    ELSE IF StartsWithNoCase(s, p, <<"i", "n", "f">>) THEN Ok(p + 3, Inf(FALSE))
    ELSE Error

\* nom's double
double(s, p) == float_or_exceptions(s, p, recognize_float(s, p))

\* parse_float without its guard: double's result as it is.
float_guard_none(s, data) == data

\* Ok((rest, _)) if rest.starts_with('*') => fail(input)
float_guard(s, data) ==
    IF data.k = "Ok" /\ At(s, data.p) = "*" THEN Error ELSE data

parse_float(s, p) == float_guard(s, double(s, p))

\* ------------------------------------------------------------ composites

RECURSIVE data_model(_, _)

\* char(c)
Char(s, p, c) == IF At(s, p) = c THEN Ok(p + 1, c) ELSE Error

\* preceded(spacer, char(c))
SpacedChar(s, p, c) == Char(s, spacer(s, p).p, c)

\* separated_pair's output once the value val is there
key_value_pair(key, val) ==
    IF val.k # "Ok" THEN val ELSE Ok(val.p, <<key.v, val.v>>)

\* preceded(spacer, data_model) after the colon
key_value_value(s, key, colon) ==
    IF colon.k # "Ok" THEN colon
    ELSE key_value_pair(key, data_model(s, spacer(s, colon.p).p))

\* cut(preceded(spacer, char(':'))) after the key
key_value_colon(s, key) ==
    IF key.k # "Ok" THEN key
    ELSE key_value_value(s, key, cut(SpacedChar(s, key.p, ":")))

parse_key_value_hash(s, p) ==
    key_value_colon(s, parse_string(s, spacer(s, p).p))

\* parse_str.or(parse_string) at q, bare being parse_str's result
bare_or_quoted(s, q, bare) ==
    IF bare.k = "Error" THEN parse_string(s, q) ELSE bare

struct_key(s, q) == bare_or_quoted(s, q, parse_str(s, q))

parse_key_value_struct(s, p) ==
    key_value_colon(s, struct_key(s, spacer(s, p).p))

\* The element parser of a separated list: "value" is data_model, "hash"
\* parse_key_value_hash, "struct" parse_key_value_struct.
Element(kind, s, p) ==
    IF kind = "value" THEN data_model(s, p)
    ELSE IF kind = "hash" THEN parse_key_value_hash(s, p)
    ELSE parse_key_value_struct(s, p)

\* nom's separated_list0(preceded(spacer, char(',')), element), after its
\* first element: a separator that no element follows is given back, a
\* fatal failure of the element is the list's.
RECURSIVE separated_list0_loop(_, _, _, _)

\* separated_list0_next putting the element before those read so far
separated_list0_next_reversed(kind, s, i, acc, e) ==
    IF e.k = "Error" THEN Ok(i, acc)
    ELSE IF e.k = "Failure" THEN Failure
    ELSE separated_list0_loop(kind, s, e.p, <<e.v>> \o acc)

\* separated_list0_next keeping a separator that no element follows
separated_list0_next_trailing(kind, s, i, acc, e) ==
    IF e.k = "Error" THEN Ok(SpacedChar(s, i, ",").p, acc)
    ELSE IF e.k = "Failure" THEN Failure
    ELSE separated_list0_loop(kind, s, e.p, Append(acc, e.v))

\* e is the element's result after a separator; the list stood at i
separated_list0_next(kind, s, i, acc, e) ==
    IF e.k = "Error" THEN Ok(i, acc)
    ELSE IF e.k = "Failure" THEN Failure
    ELSE separated_list0_loop(kind, s, e.p, Append(acc, e.v))

\* sep is the separator's result at i
separated_list0_sep(kind, s, i, acc, sep) ==
    IF sep.k # "Ok" THEN Ok(i, acc)
    ELSE separated_list0_next(kind, s, i, acc, Element(kind, s, sep.p))

separated_list0_loop(kind, s, i, acc) ==
    separated_list0_sep(kind, s, i, acc, SpacedChar(s, i, ","))

\* e is the first element's result, at p
separated_list0_first(kind, s, p, e) ==
    IF e.k = "Error" THEN Ok(p, <<>>)
    ELSE IF e.k = "Failure" THEN Failure
    ELSE separated_list0_loop(kind, s, e.p, <<e.v>>)

separated_list0(kind, s, p) ==
    separated_list0_first(kind, s, p, Element(kind, s, p))

\* terminated's output once the closing delimiter was looked for
delimited_end(items, closing) ==
    IF closing.k # "Ok" THEN Failure ELSE Ok(closing.p, items.v)

\* delimited_close without the cut: a missing closing delimiter is a
\* recoverable error.
delimited_close_uncommitted(s, items, close) ==
    IF items.k # "Ok" THEN items
    ELSE IF SpacedChar(s, items.p, close).k # "Ok" THEN Error
    ELSE Ok(SpacedChar(s, items.p, close).p, items.v)

\* cut(terminated(.., preceded(spacer, char(close)))) after the list
delimited_close(s, items, close) ==
    IF items.k # "Ok" THEN Failure
    ELSE delimited_end(items, SpacedChar(s, items.p, close))

\* preceded(char(open), cut(terminated(separated_list0(.., element),
\*                                     preceded(spacer, char(close)))))
Delimited(kind, s, p, open, close) ==
    IF At(s, p) # open THEN Error
    ELSE delimited_close(s, separated_list0(kind, s, p + 1), close)

parse_array(s, p) == Delimited("value", s, p, "[", "]")

parse_array_tuple(s, p) == Delimited("value", s, p, "(", ")")

\* An insert that keeps the entry a key already has.
InsertKeepFirst(m, key, val) ==
    [x \in DOMAIN m \cup {key} |-> IF x \in DOMAIN m THEN m[x] ELSE val]

\* HashMap::insert: the entry of an equal key is replaced.
Insert(m, key, val) ==
    [x \in DOMAIN m \cup {key} |-> IF x = key THEN val ELSE m[x]]

\* tuple_vec.into_iter().collect() into a HashMap: the pairs are inserted
\* in order.
RECURSIVE collect_from(_, _, _)
collect_from(pairs, i, m) ==
    IF i > Len(pairs) THEN m
    ELSE collect_from(pairs, i + 1, Insert(m, pairs[i][1], pairs[i][2]))

collect(pairs) == collect_from(pairs, 1, <<>>)

MapCollect(r) == IF r.k = "Ok" THEN Ok(r.p, collect(r.v)) ELSE r

parse_hash(s, p) == MapCollect(Delimited("hash", s, p, "{", "}"))

parse_hash_unticked(s, p) ==
    MapCollect(Delimited("struct", s, spacer(s, p).p, "{", "}"))

\* separated_pair(parse_str, spacer, ..), name being parse_str's result
struct_body(s, name) ==
    IF name.k # "Ok" THEN name
    ELSE parse_hash_unticked(s, spacer(s, name.p).p)

\* separated_pair(parse_str, spacer, parse_hash_unticked), the name dropped
parse_struct(s, p) == struct_body(s, parse_str(s, p))

\* named_array_body keeping the name, as the first element of the list
named_array_body_named(s, name) ==
    IF name.k # "Ok" THEN name
    ELSE IF parse_array(s, spacer(s, name.p).p).k # "Ok"
        THEN parse_array(s, spacer(s, name.p).p)
    ELSE Ok(parse_array(s, spacer(s, name.p).p).p,
            <<String(name.v)>> \o parse_array(s, spacer(s, name.p).p).v)

named_array_body(s, name) ==
    IF name.k # "Ok" THEN name
    ELSE parse_array(s, spacer(s, name.p).p)

\* separated_pair(parse_str, spacer, parse_array), the name dropped
parse_named_array(s, p) == named_array_body(s, parse_str(s, p))

\* tuple_var_close skipping whitespace before the `)`
tuple_var_close_spaced(s, inner) ==
    IF inner.k # "Ok" THEN Failure
    ELSE IF At(s, spacer(s, inner.p).p) # ")" THEN Failure
    ELSE Ok(spacer(s, inner.p).p + 1, inner.v)

\* cut(terminated(data_model, char(')'))), inner being data_model's result
tuple_var_close(s, inner) ==
    IF inner.k # "Ok" THEN Failure
    ELSE IF At(s, inner.p) # ")" THEN Failure
    ELSE Ok(inner.p + 1, inner.v)

\* preceded(parse_str, char('(')), name being parse_str's result
tuple_var_open(s, name) ==
    IF name.k # "Ok" THEN name
    ELSE IF At(s, name.p) # "(" THEN Error
    ELSE tuple_var_close(s, data_model(s, name.p + 1))

\* preceded(preceded(parse_str, char('(')),
\*          cut(terminated(data_model, char(')'))))
parse_tuple_var(s, p) == tuple_var_open(s, parse_str(s, p))

\* ------------------------------------------------------------ wildcard

MaskedOpen == <<"*", "*", "*", " ">>
MaskedClose == <<" ", "*", "*", "*">>
MaskedText ==
    <<"*", "*", "*", " ", "m", "a", "s", "k", "e", "d", " ", "*", "*", "*">>

\* masked_close not looking for the closing ` ***`
masked_close_unchecked(s, body) ==
    IF body.k # "Ok" THEN Error ELSE Ok(body.p, body.v)

\* tag(" ***") after the body
masked_close(s, body) ==
    IF body.k # "Ok" THEN Error
    ELSE IF ~StartsWith(s, body.p, MaskedClose) THEN Error
    ELSE Ok(body.p + 4, body.v)

\* delimited(tag("*** "), everything_none_space, tag(" ***"))
masked_data(s, p) ==
    IF ~StartsWith(s, p, MaskedOpen) THEN Error
    ELSE masked_close(s, everything_none_space(s, p + 4))

\* alt((map(masked_data, ..), escaped(..))) after masked_data's result
wildcard_alt(s, p, masked) ==
    IF masked.k = "Ok" THEN Ok(masked.p, MaskedText)
    ELSE escaped("wc", s, p)

parse_wildcard(s, p) == wildcard_alt(s, p, masked_data(s, p))

\* ------------------------------------------------------------ dispatcher

\* Alternatives with the number parser put before the date/time heuristic.
AlternativesNumberFirst ==
    <<"parse_null", "parse_bool", "parse_float", "parse_datetime",
      "string::parse_string", "parse_array_tuple", "parse_array",
      "parse_hash", "parse_tuple_var", "parse_struct", "parse_named_array",
      "parse_wildcard">>

\* The alternatives of data_model's alt((...)), in the order of the source.
Alternatives ==
    <<"parse_null", "parse_bool", "parse_datetime", "parse_float",
      "string::parse_string", "parse_array_tuple", "parse_array",
      "parse_hash", "parse_tuple_var", "parse_struct", "parse_named_array",
      "parse_wildcard">>

\* One alternative, with the map(..) that makes its output a DataModel.
Alternative(name, s, p) ==
    CASE name = "parse_null" -> MapNull(parse_null(s, p))
      [] name = "parse_bool" -> MapBoolean(parse_bool(s, p))
      [] name = "parse_datetime" -> MapString(parse_datetime(s, p))
      [] name = "parse_float" -> MapFloat(parse_float(s, p))
      [] name = "string::parse_string" -> MapString(string_parse_string(s, p))
      [] name = "parse_array_tuple" -> MapVec(parse_array_tuple(s, p))
      [] name = "parse_array" -> MapVec(parse_array(s, p))
      [] name = "parse_hash" -> MapMap(parse_hash(s, p))
      [] name = "parse_tuple_var" -> parse_tuple_var(s, p)
      [] name = "parse_struct" -> MapMap(parse_struct(s, p))
      [] name = "parse_named_array" -> MapVec(parse_named_array(s, p))
      [] name = "parse_wildcard" -> MapString(parse_wildcard(s, p))

\* nom's alt, from the i-th alternative on: the outcome r of the first
\* alternative that does not fail recoverably (the last one's error when
\* all do), with the alternatives consulted on the way.
RECURSIVE alt_from(_, _, _, _)

\* r is the outcome of the i-th alternative, the last of those consulted
alt_next(i, s, p, consulted, r) ==
    IF r.k = "Error" /\ i < Len(Alternatives)
    THEN alt_from(i + 1, s, p, consulted)
    ELSE [r |-> r, tried |-> consulted]

alt_from(i, s, p, tried) ==
    alt_next(i, s, p, Append(tried, Alternatives[i]),
             Alternative(Alternatives[i], s, p))

alt(s, p) == alt_from(1, s, p, <<>>)

\* preceded(spacer, alt((...)))
data_model(s, p) == alt(s, spacer(s, p).p).r

\* root_trailing leaving the whitespace after the value in the remainder
root_trailing_kept(s, r) == r

\* opt(spacer) after data_model's result
root_trailing(s, r) ==
    IF r.k # "Ok" THEN r ELSE Ok(spacer(s, r.p).p, r.v)

\* delimited(spacer, data_model, opt(spacer))
root(s, p) == root_trailing(s, data_model(s, spacer(s, p).p))

(***************************************************************************)
(* serde_json::to_string(&value) for #[derive(serde::Serialize)]           *)
(* #[serde(untagged)]: the compact JSON text, as a sequence of characters. *)
(* A call returns one text; to_string is the set of the texts a call may   *)
(* return, for two reasons.  A HashMap is written in its iteration order,  *)
(* which is any order of its keys (RandomState).  And the repository's     *)
(* source fixes no version of serde_json, whose versions write the         *)
(* exponent form of a number differently: with ryu, `1e16` and `1e-7`;     *)
(* with the formatter that replaced ryu, the exponent with its sign,       *)
(* `1e+16` and `1e-7`.  Everything else is written the same by both, so    *)
(* the two differ only where the exponent is positive.                     *)
(***************************************************************************)

DigitText(d) == <<>> \o [j \in 1..Len(d) |-> DigitSeq[d[j] + 1]]

\* The decimal digits of k, for 0 <= k < 1000
exponent_digits(k) ==
    IF k >= 100
        THEN <<DigitSeq[(k \div 100) + 1], DigitSeq[((k \div 10) % 10) + 1],
               DigitSeq[(k % 10) + 1]>>
    ELSE IF k >= 10 THEN <<DigitSeq[(k \div 10) + 1], DigitSeq[(k % 10) + 1]>>
    ELSE <<DigitSeq[k + 1]>>

\* The exponent k after `e`: its sign and its digits, without padding.
\* ryu writes the sign of a negative k only (signed = FALSE); the later
\* formatter writes the sign of every k (signed = TRUE).
write_exponent(k, signed) ==
    (IF k < 0 THEN <<"-">> ELSE IF signed THEN <<"+">> ELSE <<>>)
        \o exponent_digits(IF k < 0 THEN -k ELSE k)

\* A finite f64 other than zero after its sign, for the digits m and the
\* exponent k of the shortest decimal m * 10^k; kk is Len(m) + k.  Below
\* 1e16 and down to 1e-5 the number is written without an exponent by
\* both formatters; otherwise as d.ddde and the exponent kk - 1.
format64_digits(m, k, kk, signed) ==
    IF 0 <= k /\ kk <= 16
        THEN DigitText(m) \o DigitText(Zeros(k)) \o <<".", "0">>
    ELSE IF 0 < kk /\ kk <= 16
        THEN DigitText(SubSeq(m, 1, kk)) \o <<".">>
                 \o DigitText(SubSeq(m, kk + 1, Len(m)))
    ELSE IF -5 < kk /\ kk <= 0
        THEN <<"0", ".">> \o DigitText(Zeros(-kk)) \o DigitText(m)
    ELSE DigitText(<<m[1]>>)
             \o (IF Len(m) = 1 THEN <<>> ELSE <<".">> \o DigitText(Tail(m)))
             \o <<"e">> \o write_exponent(kk - 1, signed)

\* A finite f64, by either formatter: the sign of a zero is written
format64(f) ==
    {(IF f.neg THEN <<"-">> ELSE <<>>)
         \o (IF f = Zero(f.neg) THEN <<"0", ".", "0">>
             ELSE format64_digits(f.m, f.e, Len(f.m) + f.e, signed)) :
         signed \in BOOLEAN}

\* serialize_f64: a NaN and an infinity are written as null
serialize_f64(f) ==
    IF f.cls = "finite" THEN format64(f) ELSE {<<"n", "u", "l", "l">>}

\* The control characters U+0001 to U+001F, C0Controls[i] being the
\* character of code i: each is one character, written as it is where
\* TLA+ has no escape for it.  U+0000, which a text file does not hold,
\* is not among the characters of the model's texts.
C0Controls ==
    <<"", "", "", "", "", "", "", "",
      "\t", "\n", "", "\f", "\r", "", "", "",
      "", "", "", "", "", "", "", "",
      "", "", "", "", "", "", "">>

\* The code of a control character, 0 for every other character.
ControlCode(c) ==
    IF \E i \in 1..Len(C0Controls) : C0Controls[i] = c
        THEN CHOOSE i \in 1..Len(C0Controls) : C0Controls[i] = c
    ELSE 0

HEX_DIGITS == DigitSeq \o <<"a", "b", "c", "d", "e", "f">>

\* serde_json's escape of one character of a string (its ESCAPE table):
\* the quote and the backslash behind a backslash, the control characters
\* as \b, \t, \n, \f, \r or \u00XX in lower-case hexadecimal, every other
\* character (U+007F too) as it is.
escape_char(c) ==
    IF c = "\"" THEN <<"\\", "\"">>
    ELSE IF c = "\\" THEN <<"\\", "\\">>
    ELSE IF ControlCode(c) = 0 THEN <<c>>
    ELSE IF ControlCode(c) = 8 THEN <<"\\", "b">>
    ELSE IF ControlCode(c) = 9 THEN <<"\\", "t">>
    ELSE IF ControlCode(c) = 10 THEN <<"\\", "n">>
    ELSE IF ControlCode(c) = 12 THEN <<"\\", "f">>
    ELSE IF ControlCode(c) = 13 THEN <<"\\", "r">>
    ELSE <<"\\", "u", "0", "0", HEX_DIGITS[(ControlCode(c) \div 16) + 1],
           HEX_DIGITS[(ControlCode(c) % 16) + 1]>>

RECURSIVE escape_from(_, _)
escape_from(x, i) ==
    IF i > Len(x) THEN <<>> ELSE escape_char(x[i]) \o escape_from(x, i + 1)

\* serialize_str: the text between quotes, escaped
serialize_str(x) == <<"\"">> \o escape_from(x, 1) \o <<"\"">>

RECURSIVE to_string(_)
RECURSIVE serialize_seq(_, _)
RECURSIVE serialize_map(_, _)

\* The elements from index i on, a comma between two
serialize_seq(items, i) ==
    IF i > Len(items) THEN {<<>>}
    ELSE IF i = Len(items) THEN to_string(items[i])
    ELSE {a \o <<",">> \o b :
              a \in to_string(items[i]), b \in serialize_seq(items, i + 1)}

\* The entries of the keys still to write, in any order, a comma between
\* two
serialize_map(m, keys) ==
    IF keys = {} THEN {<<>>}
    ELSE UNION {{serialize_str(key) \o <<":">> \o a
                     \o (IF keys = {key} THEN <<>> ELSE <<",">>) \o b :
                     a \in to_string(m[key]),
                     b \in serialize_map(m, keys \ {key})} :
                key \in keys}

to_string(v) ==
    CASE v.t = "Null" -> {<<"n", "u", "l", "l">>}
      [] v.t = "Boolean" ->
             {IF v.b THEN <<"t", "r", "u", "e">>
              ELSE <<"f", "a", "l", "s", "e">>}
      [] v.t = "Float" -> serialize_f64(v.f)
      [] v.t = "String" -> {serialize_str(v.s)}
      [] v.t = "Vec" ->
             {<<"[">> \o a \o <<"]">> : a \in serialize_seq(v.items, 1)}
      [] v.t = "Map" ->
             {<<"{">> \o a \o <<"}">> : a \in serialize_map(v.m, DOMAIN v.m)}

\* .expect("Failed to parse the ron object") with .1, then
\* .expect("Failed to serialize to json"): a failure of root is a panic;
\* of a success the value alone is kept (.1) and written, the remainder
\* is not part of what is returned; the serialisation never fails.
expect_value(r) ==
    IF r.k # "Ok" THEN {[k |-> "Panic"]}
    ELSE {[k |-> "Ok", v |-> text] : text \in to_string(r.v)}

\* my_parse: the JSON texts a call may return, or the panic
my_parse(s) == expect_value(root(s, 1))

\* ------------------------------------------------------------ the calls

(***************************************************************************)
(* One behaviour is one text handed to the parser's two public functions.  *)
(*   input  the text                                                       *)
(*   shape  how the text was put together (read by the properties only)    *)
(*   pc     "call" before a call; "data_model" or "root" once that         *)
(*          function has returned                                          *)
(*   res    what the function returned                                     *)
(*   tried  the alternatives the outermost alt of data_model consulted     *)
(***************************************************************************)
VARIABLES input, shape, pc, res, tried

vars == <<input, shape, pc, res, tried>>

\* data_model(input)
CallDataModel ==
    /\ pc = "call"
    /\ \E run \in {alt(input, spacer(input, 1).p)} :
           /\ res' = run.r
           /\ tried' = run.tried
    /\ pc' = "data_model"
    /\ UNCHANGED <<input, shape>>

\* root(input)
CallRoot ==
    /\ pc = "call"
    /\ res' = root(input, 1)
    /\ pc' = "root"
    /\ UNCHANGED <<input, shape, tried>>

Next == CallDataModel \/ CallRoot

\* my_parse(input)
CallMyParse ==
    /\ pc = "call"
    /\ \E r \in my_parse(input) : res' = r
    /\ pc' = "my_parse"
    /\ UNCHANGED <<input, shape, tried>>

\* The three public functions.
NextEntry == CallDataModel \/ CallRoot \/ CallMyParse

\* The text a sequence of tokens spells.
RECURSIVE Flatten(_)
Flatten(toks) ==
    IF Len(toks) = 0 THEN <<>> ELSE toks[1] \o Flatten(Tail(toks))

SeqsUpTo(S, n) == UNION {[1..k -> S] : k \in 0..n}

Start(sh, text) ==
    /\ shape = sh
    /\ input = text
    /\ pc = "call"
    /\ res = Error
    /\ tried = <<>>

\* ------------------------------------------------------------ texts

tNone == <<"N", "o", "n", "e">>
tTrue == <<"t", "r", "u", "e">>
tFalse == <<"f", "a", "l", "s", "e">>
tDate == <<"1", "-", "2", " ", "3", ":", "4">>
tQuoted == <<"\"", "a", "\"">>

\* Every text of at most MaxTokens of these tokens.
MaxTokens == 4

Tokens ==
    {tNone, tTrue, tDate, tQuoted, <<"1">>, <<"x">>, <<" ">>, <<",">>,
     <<"(">>, <<")">>, <<"[">>, <<"]">>, <<"{">>, <<"}">>}

Init ==
    \E toks \in SeqsUpTo(Tokens, MaxTokens) :
        Start([kind |-> "tokens", toks |-> toks], Flatten(toks))

Spec == Init /\ [][Next]_vars

\* ------------------------------------------------------------ properties

\* The first position of s that holds no whitespace character.
FirstNonSpace(s) ==
    CHOOSE q \in 1..End(s) :
        /\ \A i \in 1..(q - 1) : s[i] \in {" ", "\t", "\r", "\n"}
        /\ q <= Len(s) => s[q] \notin {" ", "\t", "\r", "\n"}

\* The order of the twelve alternatives: null, boolean, date/time, number,
\* quoted string, tuple, list, quoted-key map, named tuple-variant, named
\* struct, named array, wildcard.
DispatchOrder ==
    <<"parse_null", "parse_bool", "parse_datetime", "parse_float",
      "string::parse_string", "parse_array_tuple", "parse_array",
      "parse_hash", "parse_tuple_var", "parse_struct", "parse_named_array",
      "parse_wildcard">>

\* C1: data_model skips the leading whitespace and returns the outcome of
\* the first alternative, in the order null .. wildcard and all tried at
\* that one position, that does not fail recoverably (the wildcard's
\* outcome when all fail so); the alternatives consulted are exactly those
\* up to that one, so none after a success or a fatal failure.
C1_DispatchOrder ==
    pc = "data_model" =>
        LET p == FirstNonSpace(input)
            n == Len(tried)
        IN  /\ n \in 1..12
            /\ tried = SubSeq(DispatchOrder, 1, n)
            /\ \A i \in 1..(n - 1) :
                   Alternative(DispatchOrder[i], input, p).k = "Error"
            /\ res = Alternative(DispatchOrder[n], input, p)
            /\ res.k = "Error" => n = 12

\* C1's witness: whitespace was skipped, ten alternatives failed
\* recoverably and the eleventh (a named array) succeeded.
C1_Witness ==
    /\ pc = "data_model"
    /\ Len(input) > 0
    /\ input[1] = " "
    /\ Len(tried) = 11
    /\ res.k = "Ok"

\* ------------------------------------------------------------ C2: commitment

tOne == <<"1">>

\* Texts that lead the parser to a value position: the value that follows
\* is the element of a list, the content of a wrapper, the value of a
\* field, one or two constructs deep.
CommitPrefixes ==
    {<<>>,
     <<" ">>,
     <<"[">>,
     <<"A", "(">>,
     <<"A", " ", "{", "a", ":", " ">>,
     <<"{", "\"", "a", "\"", ":">>,
     <<"A", "(", "[">>,
     <<"[", "1", ",", " ", "(">>}

Openers == {"[", "(", "{"}

\* What follows the opening delimiter: at most MaxBody of these.
MaxBody == 3

BodyTokens ==
    {tOne, tQuoted, <<",">>, <<";">>, <<":">>, <<"]">>, <<")">>, <<"}">>}

\* A prefix, an opening delimiter and a body.
InitCommit ==
    \E prefix \in CommitPrefixes, open \in Openers,
       toks \in SeqsUpTo(BodyTokens, MaxBody) :
        Start([kind |-> "commit", prefix |-> prefix,
               body |-> <<open>> \o Flatten(toks)],
              prefix \o <<open>> \o Flatten(toks))

SpecCommit == InitCommit /\ [][Next]_vars

Closer(open) == IF open = "[" THEN "]" ELSE IF open = "(" THEN ")" ELSE "}"

Chars(text) == {text[i] : i \in 1..Len(text)}

\* C2: at a value position that holds `[`, `(` or `{` the dispatcher
\* returns a List or a Map or fails fatally, never recoverably and never
\* with a wildcard Text; it fails fatally when the closing delimiter is
\* missing and when `;` stands where a separator or the closing delimiter
\* is due; and a fatal failure of the construct is the outcome of every
\* construct around it, of data_model and of root.
C2_Commit ==
    (pc # "call" /\ shape.kind = "commit") =>
        LET at == Len(shape.prefix) + 1
            open == input[at]
            inner == data_model(input, at)
        IN  /\ open \in {"[", "(", "{"}
            /\ inner.k \in {"Ok", "Failure"}
            /\ inner.k = "Ok" =>
                   inner.v.t = (IF open = "{" THEN "Map" ELSE "Vec")
            /\ Closer(open) \notin Chars(shape.body) => inner.k = "Failure"
            /\ (At(input, at + 1) = "1" /\ At(input, at + 2) = ";") =>
                   inner.k = "Failure"
            /\ inner.k = "Failure" => res.k = "Failure"
            /\ shape.prefix \in {<<>>, <<" ">>} =>
                   /\ res.k = inner.k
                   /\ res.k = "Ok" => res.v = inner.v

\* C2's witness: root has failed fatally on a list whose second separator
\* is `;`, two constructs deep.
C2_Witness ==
    /\ pc = "root"
    /\ shape.kind = "commit"
    /\ shape.prefix = <<"A", "(", "[">>
    /\ shape.body = <<"[", "1", ";", "1">>
    /\ res.k = "Failure"

\* ------------------------------------------------------------ C3: date/time

\* The groups of digits and `.` a date/time token is made of.
Groups == {<<"1">>, <<"0", "6">>, <<"3", "0", ".", "3", "5">>, <<".">>}

\* A token has at most MaxGroups groups on each side of its space.
MaxGroups == 2

GroupLists == {g \in SeqsUpTo(Groups, MaxGroups) : Len(g) > 0}

\* date groups joined by `-`, one space, time groups joined by `:`
DateToken(date, time) == Join(date, "-") \o <<" ">> \o Join(time, ":")

tCreated == <<"c", "r", "e", "a", "t", "e", "d">>
tNameCreatedSome ==
    <<"N", "a", "m", "e", " ", "{", " "
    >> \o tCreated \o <<":", " ", "S", "o", "m", "e", "(">>

\* What stands before and after the token.
DateContexts ==
    {<< <<>>, <<>> >>,
     << <<" ">>, <<",">> >>,
     << <<>>, <<" ", "x">> >>,
     << <<>>, <<":">> >>,
     << <<>>, <<":", "7">> >>,
     << <<>>, <<"-", "1">> >>,
     << <<"[">>, <<"]">> >>,
     << <<"(">>, <<",", " ", "1", ")">> >>,
     << tNameCreatedSome, <<")", "}">> >>}

InitDate ==
    \E date \in GroupLists, time \in GroupLists, ctx \in DateContexts :
        Start([kind |-> "date", prefix |-> ctx[1],
               token |-> DateToken(date, time), suffix |-> ctx[2]],
              ctx[1] \o DateToken(date, time) \o ctx[2])

SpecDate == InitDate /\ [][Next]_vars

\* C3: at a value position that holds a date/time-shaped token the
\* dispatcher returns a Text that is, character for character, the input it
\* consumed, which is the token at least, and the token exactly unless a
\* digit, a `.` or a `:` follows it; the element of a list and the field of
\* `Name { created: Some(token)}` are that Text.
C3_DateTime ==
    (pc # "call" /\ shape.kind = "date") =>
        LET at == Len(shape.prefix) + 1
            tok == shape.token
            inner == data_model(input, at)
        IN  /\ inner.k = "Ok"
            /\ inner.v.t = "String"
            /\ inner.p >= at + Len(tok)
            /\ inner.v.s = Slice(input, at, inner.p)
            /\ At(shape.suffix, 1) \notin DigitChars \cup {".", ":"} =>
                   inner.v = String(tok)
            /\ shape.prefix \in {<<>>, <<" ">>} =>
                   res.k = "Ok" /\ res.v = inner.v
            /\ shape.prefix = <<"[">> =>
                   res.k = "Ok" /\ res.v = Vec(<<String(tok)>>)
            /\ shape.prefix = tNameCreatedSome =>
                   res.k = "Ok" /\ res.v = Map(tCreated :> String(tok))

\* C3's witness: root has returned the map of
\* `Name { created: Some(06-1 30.35:06)}`.
C3_Witness ==
    /\ pc = "root"
    /\ shape.kind = "date"
    /\ shape.prefix = tNameCreatedSome
    /\ shape.token =
           <<"0", "6", "-", "1", " ", "3", "0", ".", "3", "5", ":", "0", "6">>
    /\ res.k = "Ok"
    /\ res.v.t = "Map"

\* ------------------------------------------------------------ C4: masked values

\* The text between the markers of a masked token: at most MaxMask of these
\* characters, none of them a space.
MaxMask == 3

MaskChars == {"a", "1", ":", ",", ")", "*", "\""}

MaskBodies == {x \in SeqsUpTo(MaskChars, MaxMask) : Len(x) > 0}

\* `*** X ***`
MaskedToken(x) == <<"*", "*", "*", " ">> \o x \o <<" ", "*", "*", "*">>

tField == <<"A", " ", "{", " ", "f", ":", " ">>

\* What stands before and after the token.
MaskContexts ==
    {<< <<>>, <<>> >>,
     << <<" ">>, <<" ">> >>,
     << <<>>, <<"x">> >>,
     << <<"[">>, <<",", " ", "1", "]">> >>,
     << <<"A", "(">>, <<")">> >>,
     << tField, <<" ", "}">> >>}

InitMasked ==
    \E x \in MaskBodies, ctx \in MaskContexts :
        Start([kind |-> "masked", prefix |-> ctx[1], x |-> x,
               suffix |-> ctx[2]],
              ctx[1] \o MaskedToken(x) \o ctx[2])

SpecMasked == InitMasked /\ [][Next]_vars

\* C4: at a value position that holds `*** X ***`, X one or more
\* characters none of which is a space, the dispatcher consumes exactly the
\* token and returns the Text `*** masked ***` whatever X is; a list element
\* and a field value written so are that Text.
C4_Masked ==
    (pc # "call" /\ shape.kind = "masked") =>
        LET at == Len(shape.prefix) + 1
            inner == data_model(input, at)
            masked ==
                String(<<"*", "*", "*", " ", "m", "a", "s", "k", "e", "d",
                         " ", "*", "*", "*">>)
        IN  /\ inner.k = "Ok"
            /\ inner.p = at + Len(shape.x) + 8
            /\ inner.v = masked
            /\ shape.prefix \in {<<>>, <<" ">>, <<"A", "(">>} =>
                   res.k = "Ok" /\ res.v = masked
            /\ shape.prefix = <<"[">> =>
                   res.k = "Ok" /\ res.v.t = "Vec" /\ res.v.items[1] = masked
            /\ shape.prefix = tField =>
                   res.k = "Ok" /\ res.v = Map(<<"f">> :> masked)

\* C4's witness: data_model has returned the map of `A { f: *** a,) *** }`.
C4_Witness ==
    /\ pc = "data_model"
    /\ shape.kind = "masked"
    /\ shape.prefix = tField
    /\ shape.x = <<"a", ",", ")">>
    /\ res.k = "Ok"
    /\ res.v.t = "Map"

\* ------------------------------------------------------------ C5: duplicate keys

\* A map is written with at most MaxEntries entries.
MaxEntries == 3

\* An entry: its key (a or b), whether the key is written in quotes, and
\* its value (the number 1 or 2).
Entries == [key : {"a", "b"}, quoted : BOOLEAN, val : {1, 2}]

EntryText(e) ==
    (IF e.quoted THEN <<"\"", e.key, "\"">> ELSE <<e.key>>)
        \o <<":", " ", DigitSeq[e.val + 1]>>

\* The entries separated by `, `.
RECURSIVE EntriesText(_)
EntriesText(es) ==
    IF Len(es) = 0 THEN <<>>
    ELSE IF Len(es) = 1 THEN EntryText(es[1])
    ELSE EntryText(es[1]) \o <<",", " ">> \o EntriesText(Tail(es))

\* `{ "a": 1, ... }`, which the quoted-key map parser reads, and
\* `N { a: 1, "b": 2, ... }`, which the bare-key map parser reads.
MapText(form, es) ==
    (IF form = "struct" THEN <<"N", " ">> ELSE <<>>)
        \o <<"{", " ">> \o EntriesText(es) \o <<" ", "}">>

InitMap ==
    \E form \in {"hash", "struct"}, es \in SeqsUpTo(Entries, MaxEntries) :
        /\ form = "hash" => \A i \in 1..Len(es) : es[i].quoted
        /\ Start([kind |-> "map", form |-> form, entries |-> es],
                 MapText(form, es))

SpecMap == InitMap /\ [][Next]_vars

\* The index of the last entry of es whose key is k.
LastOf(es, k) ==
    CHOOSE i \in 1..Len(es) :
        /\ es[i].key = k
        /\ \A j \in (i + 1)..Len(es) : es[j].key # k

\* C5: the Map read from a quoted-key map or from a bare-key map has one
\* entry for each key that occurs in the input, as many entries as there
\* are distinct keys, and the value of a key is the value of its last
\* occurrence.
C5_LastKeyWins ==
    (pc # "call" /\ shape.kind = "map") =>
        LET es == shape.entries
            keys == {es[i].key : i \in 1..Len(es)}
        IN  /\ res.k = "Ok"
            /\ res.v.t = "Map"
            /\ DOMAIN res.v.m = {<<k>> : k \in keys}
            /\ Cardinality(DOMAIN res.v.m) = Cardinality(keys)
            /\ \A k \in keys :
                   res.v.m[<<k>>] =
                       Float(F64("finite", FALSE,
                                 <<es[LastOf(es, k)].val>>, 0))

\* C5's witness: the map of `{ "a": 1, "b": 1, "a": 2 }` was read.
C5_Witness ==
    /\ pc = "data_model"
    /\ shape.kind = "map"
    /\ shape.form = "hash"
    /\ Len(shape.entries) = 3
    /\ shape.entries[1].key = "a" /\ shape.entries[1].val = 1
    /\ shape.entries[2].key = "b"
    /\ shape.entries[3].key = "a" /\ shape.entries[3].val = 2
    /\ res.k = "Ok"
    /\ Cardinality(DOMAIN res.v.m) = 2

\* ------------------------------------------------------------ C6, C7: names

tData == <<"D", "a", "t", "a">>
tSome == <<"S", "o", "m", "e">>
tNoneType == <<"N", "o", "n", "e", "T", "y", "p", "e">>
tTrueValue == <<"t", "r", "u", "e", "V", "a", "l", "u", "e">>

\* Identifiers: characters of char_checker's class only.  `NoneType`,
\* `trueValue` and `false` begin with a literal, `Info` and `NaN` with a
\* word that is a number, `1`, `12a`, `1e5`, `1e999` and `1e` with a digit.
Names ==
    {<<"A">>, tData, tSome, tNoneType, tTrueValue, tFalse,
     <<"I", "n", "f", "o">>,
     <<"N", "a", "N">>, <<"1">>, <<"1", "2", "a">>, <<"1", "e", "5">>,
     <<"1", "e", "9", "9", "9">>, <<"1", "e">>}

\* Value texts; `("12",23)` is the content of Data(("12",23)).
tPair == <<"(", "\"", "1", "2", "\"", ",", "2", "3", ")">>
WrapValues ==
    {tOne, <<"x">>, tQuoted, tPair, tNone, <<"[", "1", "]">>, <<"{", "}">>}

\* A value is wrapped in at most MaxWrap names.
MaxWrap == 2

\* `A(B(v))` for the names <<A, B>>
RECURSIVE Wrapped(_, _)
Wrapped(names, v) ==
    IF Len(names) = 0 THEN v
    ELSE names[1] \o <<"(">> \o Wrapped(Tail(names), v) \o <<")">>

InitWrap ==
    \E names \in SeqsUpTo(Names, MaxWrap), v \in WrapValues :
        /\ Len(names) > 0
        /\ Start([kind |-> "wrap", names |-> names, v |-> v],
                 Wrapped(names, v))

SpecWrap == InitWrap /\ [][Next]_vars

\* C6: when the dispatcher reads the text v followed by `)` as the value V
\* with `)` next, it reads `Name(v)`, and `A(B(v))`, as exactly V, whatever
\* the names are.
C6_Unwrap ==
    (pc # "call" /\ shape.kind = "wrap") =>
        LET V == data_model(shape.v \o <<")">>, 1)
        IN  (V.k = "Ok" /\ V.p = Len(shape.v) + 1) =>
                res.k = "Ok" /\ res.v = V.v

\* The bodies of a named form: fields with bare keys for a struct, elements
\* for an array and for a tuple-variant.
StructBodies ==
    {<<>>,
     <<"a", ":", " ", "1">>,
     <<"a", ":", " ", "1", ",", " ", "b", ":", " ", "2">>,
     <<"a", ":", " ", "x">>}

ElementBodies ==
    {<<>>, tOne, <<"1", ",", " ", "x">>, tQuoted}

\* `{ B }`, `[B]`, `(B)`
UnnamedText(form, body) ==
    IF form = "struct" THEN <<"{", " ">> \o body \o <<" ", "}">>
    ELSE IF form = "array" THEN <<"[">> \o body \o <<"]">>
    ELSE <<"(">> \o body \o <<")">>

\* `N { B }`, `N [B]`, `N(B)`
NamedText(name, form, body) ==
    name \o (IF form = "tuple" THEN <<>> ELSE <<" ">>)
         \o UnnamedText(form, body)

InitNamed ==
    \E name \in Names, form \in {"struct", "array", "tuple"},
       body \in StructBodies \cup ElementBodies :
        /\ body \in (IF form = "struct" THEN StructBodies ELSE ElementBodies)
        /\ Start([kind |-> "named", name |-> name, form |-> form,
                  body |-> body],
                 NamedText(name, form, body))

SpecNamed == InitNamed /\ [][Next]_vars

\* C7: the dispatcher returns for the named form `N { B }`, `N [B]`, `N(B)`
\* what it returns for the unnamed form `{ B }`, `[B]`, `(B)`: a value when
\* that yields a value, and the same value.
C7_NameLeavesNoTrace ==
    (pc = "data_model" /\ shape.kind = "named") =>
        LET unnamed == data_model(UnnamedText(shape.form, shape.body), 1)
        IN  /\ res.k = unnamed.k
            /\ res.k = "Ok" => res.v = unnamed.v

\* The alternatives that read a named form.
NamedAlternatives == {"parse_tuple_var", "parse_struct", "parse_named_array"}

\* How many digits the text has from position p on.
DigitsAt(name, p) ==
    CHOOSE d \in 0..(Len(name) + 1 - p) :
        /\ \A i \in p..(p + d - 1) : name[i] \in DigitChars
        /\ p + d <= Len(name) => name[p + d] \notin DigitChars

\* C7, amended: of `N { B }`, `N [B]` and `N(B)` the dispatcher reads a
\* prefix of N as a value and stops there when N begins with a literal or
\* with a number: `None`, `true` or `false` gives Null or the Boolean;
\* `inf` or `nan` in any letter case gives the infinite or the NaN Float;
\* digits give the Float they spell, with the exponent when `e` or `E` and
\* digits follow them (infinite for `1e999`), and a fatal failure when `e`
\* or `E` follows them without a digit.  Every other N is handed to the alternatives for
\* named forms, and then the name leaves no trace: `N [B]` has the outcome
\* of `[B]`; `N { B }` has the outcome of the bare-key map parser on
\* `{ B }`, which the dispatcher itself reads only when B is empty and
\* otherwise rejects fatally; `N(B)` is the dispatcher's value for B when B
\* is one value that `)` follows and a fatal failure otherwise, not the
\* List that `(B)` is.
C7_NamedForms ==
    (pc = "data_model" /\ shape.kind = "named") =>
        LET name == shape.name
            body == shape.body
            last == tried[Len(tried)]
            literal == \E lit \in {tNone, tTrue, tFalse} :
                           /\ Len(lit) <= Len(name)
                           /\ SubSeq(name, 1, Len(lit)) = lit
            inf == StartsWithNoCase(name, 1, <<"i", "n", "f">>)
            nan == StartsWithNoCase(name, 1, <<"n", "a", "n">>)
            digits == DigitsAt(name, 1)
            exp == At(name, digits + 1) \in {"e", "E"}
            expdigits == DigitsAt(name, digits + 2)
            unnamed == data_model(UnnamedText(shape.form, body), 1)
            bare == parse_hash_unticked(UnnamedText("struct", body), 1)
            V == data_model(body \o <<")">>, 1)
        IN  IF literal
            THEN /\ last \in {"parse_null", "parse_bool"}
                 /\ res.k = "Ok"
                 /\ res.v = (IF name[1] = "N" THEN Null
                             ELSE Boolean(name[1] = "t"))
                 /\ res.p = (IF name[1] = "f" THEN 6 ELSE 5)
            ELSE IF inf \/ nan
            THEN /\ last = "parse_float"
                 /\ res.k = "Ok"
                 /\ res.v = Float(IF nan THEN NaN ELSE Inf(FALSE))
                 /\ res.p = 4
            ELSE IF digits > 0
            THEN /\ last = "parse_float"
                 /\ IF exp /\ expdigits = 0 THEN res.k = "Failure"
                    ELSE /\ res.k = "Ok"
                         /\ res.v.t = "Float"
                         /\ res.v.f.cls \in {"finite", "inf"}
                         /\ res.p = digits + 1
                                + (IF exp THEN 1 + expdigits ELSE 0)
                         /\ res.v = data_model(SubSeq(name, 1, res.p - 1), 1).v
            ELSE /\ last \in NamedAlternatives
                 /\ shape.form = "array" =>
                     /\ res.k = unnamed.k
                     /\ res.k = "Ok" => res.v = unnamed.v
                 /\ shape.form = "struct" =>
                     /\ res.k = bare.k
                     /\ res.k = "Ok" => res.v = Map(bare.v)
                     /\ unnamed.k = (IF body = <<>> THEN "Ok" ELSE "Failure")
                     /\ unnamed.k = "Ok" => res.v = unnamed.v
                 /\ shape.form = "tuple" =>
                     /\ unnamed.k = "Ok" /\ unnamed.v.t = "Vec"
                     /\ IF V.k = "Ok" /\ V.p = Len(body) + 1
                        THEN res.k = "Ok" /\ res.v = V.v /\ res.v # unnamed.v
                        ELSE res.k = "Failure"

\* C7's witness: `Data { a: 1, b: 2 }` was read as a map of two entries by
\* the alternative for named structs.
C7_Witness ==
    /\ pc = "data_model"
    /\ shape.kind = "named"
    /\ shape.name = tData
    /\ shape.body = <<"a", ":", " ", "1", ",", " ", "b", ":", " ", "2">>
    /\ tried[Len(tried)] = "parse_struct"
    /\ res.k = "Ok"
    /\ DOMAIN res.v.m = {<<"a">>, <<"b">>}

\* ------------------------------------------------------------ C8: empty composites

\* Between two delimiters stand at most MaxSpace whitespace characters.
MaxSpace == 2

Spaces == SeqsUpTo({" ", "\t", "\n"}, MaxSpace)

tName == <<"N", "a", "m", "e">>
tItems == <<"i", "t", "e", "m", "s">>

\* The forms of C8, w and w2 being the whitespace written in them:
\* `[w]`, `(w)`, `{w}`, `Name w2 {w}` and `Name { items: [w] }`.
EmptyText(form, w, w2) ==
    CASE form = "list" -> <<"[">> \o w \o <<"]">>
      [] form = "tuple" -> <<"(">> \o w \o <<")">>
      [] form = "map" -> <<"{">> \o w \o <<"}">>
      [] form = "struct" -> tName \o w2 \o <<"{">> \o w \o <<"}">>
      [] form = "field" ->
            tName \o <<" ", "{", " ">> \o tItems \o <<":", " ", "[">> \o w
                \o <<"]", " ", "}">>

\* The position after the opening delimiter of the empty construct.
EmptyAt(form, w2) ==
    CASE form \in {"list", "tuple", "map"} -> 2
      [] form = "struct" -> Len(tName) + Len(w2) + 2
      [] form = "field" -> Len(tName) + Len(tItems) + 7

InitEmpty ==
    \E form \in {"list", "tuple", "map", "struct", "field"},
       w \in Spaces, w2 \in Spaces :
        /\ form # "struct" => w2 = <<>>
        /\ Start([kind |-> "empty", form |-> form, w |-> w, w2 |-> w2],
                 EmptyText(form, w, w2))

SpecEmpty == InitEmpty /\ [][Next]_vars

\* C8: `[]`, `()`, `{}` and `Name { }`, with any whitespace between the
\* delimiters, are read to the end as the empty List and the empty Map, and
\* `Name { items: [] }` as the Map of the one entry items -> empty List;
\* the element parser fails recoverably, not fatally, where the closing
\* delimiter stands.
C8_EmptyComposites ==
    (pc # "call" /\ shape.kind = "empty") =>
        LET form == shape.form
            at == EmptyAt(form, shape.w2)
        IN  /\ res.k = "Ok"
            /\ res.p = Len(input) + 1
            /\ form \in {"list", "tuple"} => res.v = Vec(<<>>)
            /\ form \in {"map", "struct"} =>
                   res.v.t = "Map" /\ DOMAIN res.v.m = {}
            /\ form = "field" =>
                   /\ res.v.t = "Map"
                   /\ DOMAIN res.v.m = {tItems}
                   /\ res.v.m[tItems] = Vec(<<>>)
            /\ Element(IF form \in {"list", "tuple", "field"} THEN "value"
                       ELSE IF form = "map" THEN "hash" ELSE "struct",
                       input, at).k = "Error"

\* C8's witness: root has read `Name { items: [ ] }`.
C8_Witness ==
    /\ pc = "root"
    /\ shape.kind = "empty"
    /\ shape.form = "field"
    /\ shape.w = <<" ">>
    /\ res.k = "Ok"
    /\ res.v.m[tItems] = Vec(<<>>)

\* ------------------------------------------------------------ C9: tuples and lists

\* A tuple or list is written with at most MaxElems elements.
MaxElems == 2

\* Element texts: a number, a bare word, a quoted string, null, a wrapped
\* value; and Nonex, which the dispatcher does not read to its end.
ElemTexts ==
    {tOne, <<"x">>, tQuoted, tNone, <<"A", "(", "x", ")">>,
     <<"N", "o", "n", "e", "x">>}

\* Texts that are no element where they are written: the empty text (`[]`,
\* `[1,]`), a text that holds the closing delimiter (`1]`), and the two
\* halves `*** a` and ` ***` of a masked value, which `[*** a, ***]` holds
\* as one element.
OddTexts ==
    {<<>>, <<"1", "]">>, <<"*", "*", "*", " ", "a">>, <<" ", "*", "*", "*">>}

\* The dispatcher reads the text to its end.
ReadWhole(text) ==
    data_model(text, 1).k = "Ok" /\ data_model(text, 1).p = Len(text) + 1

\* An element as written: its text, the whitespace before it and the
\* whitespace after it (before the comma or the closing delimiter).
Elems ==
    [text : ElemTexts, before : {<<>>, <<" ">>}, after : {<<>>, <<" ">>}]
        \cup [text : OddTexts, before : {<<>>}, after : {<<>>}]

RECURSIVE ElemsText(_)
ElemsText(es) ==
    IF Len(es) = 0 THEN <<>>
    ELSE es[1].before \o es[1].text \o es[1].after
            \o (IF Len(es) = 1 THEN <<>> ELSE <<",">> \o ElemsText(Tail(es)))

SeqText(open, es) == <<open>> \o ElemsText(es) \o <<Closer(open)>>

InitList ==
    \E open \in {"(", "["}, es \in SeqsUpTo(Elems, MaxElems) :
        /\ Len(es) > 0
        /\ Start([kind |-> "list", open |-> open, elems |-> es],
                 SeqText(open, es))

SpecList == InitList /\ [][Next]_vars

\* C9: when v0..vn are texts the dispatcher reads to their end, the tuple
\* `(v0, ..., vn)` and the list `[v0, ..., vn]` are read as the same List
\* of n+1 elements, the i-th the dispatcher's value for vi, whatever
\* whitespace stands before an element, a comma or the closing delimiter.
C9_ElementsAsWritten ==
    (pc # "call" /\ shape.kind = "list"
        /\ \A i \in 1..Len(shape.elems) : ReadWhole(shape.elems[i].text)) =>
        LET es == shape.elems
            other == data_model(SeqText(IF shape.open = "(" THEN "[" ELSE "(",
                                        es), 1)
        IN  /\ res.k = "Ok"
            /\ other.k = "Ok"
            /\ res.v = other.v
            /\ res.v.t = "Vec"
            /\ Len(res.v.items) = Len(es)
            /\ \A i \in 1..Len(es) :
                   res.v.items[i] = data_model(es[i].text, 1).v

\* Where the comma or closing delimiter written after the i-th element
\* stands in the text of the tuple or list.
RECURSIVE DelimiterAt(_, _)
DelimiterAt(es, i) ==
    IF i = 0 THEN 1
    ELSE DelimiterAt(es, i - 1) + 1
             + Len(es[i].before) + Len(es[i].text) + Len(es[i].after)

\* C9, amended: when each of v0..vn is read by the dispatcher where it
\* stands in the tuple or list, as one value that ends, the whitespace
\* written after it skipped, at the comma or closing delimiter written
\* after it, the tuple `(v0, ..., vn)` and the list `[v0, ..., vn]` are
\* read, up to their closing delimiter, as the same List of n+1 elements
\* in input order: whitespace before an element is skipped, and the i-th
\* element is the dispatcher's value for vi together with the whitespace
\* written after it, which a bare word keeps in its Text and every other
\* value drops.  An empty text is never read so.
C9_ElementsWithTrailingSpace ==
    (pc # "call" /\ shape.kind = "list") =>
        LET es == shape.elems
            other == data_model(SeqText(IF shape.open = "(" THEN "[" ELSE "(",
                                        es), 1)
            here == [i \in 1..Len(es) |->
                        data_model(input, DelimiterAt(es, i - 1) + 1)]
        IN  (\A i \in 1..Len(es) :
                 /\ here[i].k = "Ok"
                 /\ spacer(input, here[i].p).p = DelimiterAt(es, i)) =>
                /\ \A i \in 1..Len(es) : es[i].text # <<>>
                /\ res.k = "Ok"
                /\ res.p = Len(input) + 1
                /\ other.k = "Ok"
                /\ res.v = other.v
                /\ res.v.t = "Vec"
                /\ Len(res.v.items) = Len(es)
                /\ \A i \in 1..Len(es) :
                       /\ res.v.items[i] = here[i].v
                       /\ res.v.items[i] =
                              data_model(es[i].text \o es[i].after, 1).v
                       /\ res.v.items[i] = data_model(es[i].text, 1).v
                              <=> \/ es[i].after = <<>>
                                  \/ alt(es[i].text, 1).tried
                                         # Alternatives

\* C9's witness: `( x ,"a" )` was read; its first element is the Text `x `.
C9_Witness ==
    /\ pc = "data_model"
    /\ shape.kind = "list"
    /\ shape.open = "("
    /\ Len(shape.elems) = 2
    /\ shape.elems[1] = [text |-> <<"x">>, before |-> <<" ">>, after |-> <<" ">>]
    /\ shape.elems[2].text = tQuoted
    /\ res.k = "Ok"
    /\ res.v.items[1] = String(<<"x", " ">>)

\* ------------------------------------------------------------ C10: exact literals

\* The token at the first position that holds no whitespace: the longest
\* run of letters, digits and `_` there.
TokenAt(s) ==
    LET p == FirstNonSpace(s)
        q == CHOOSE q \in p..End(s) :
                /\ \A i \in p..(q - 1) : s[i] \in IdentChars
                /\ q <= Len(s) => s[q] \notin IdentChars
    IN  Slice(s, p, q)

\* What follows the literal None, true or false.
LiteralTails ==
    {<<>>, <<"T", "y", "p", "e">>, <<"V", "a", "l", "u", "e">>, <<"x">>,
     <<"_", "1">>, <<"1">>, <<"(", "1", ")">>, <<",">>, <<" ", "x">>,
     <<" ", "{", " ", "}">>, <<")">>, <<"]">>}

InitLiteral ==
    \E lead \in {<<>>, <<" ">>}, literal \in {tNone, tTrue, tFalse},
       tail \in LiteralTails :
        Start([kind |-> "literal", literal |-> literal, tail |-> tail],
              lead \o literal \o tail)

SpecLiteral == InitLiteral /\ [][Next]_vars

\* C10: the dispatcher returns Null only when the token at its position is
\* `None` and a Boolean only when the token is `true` or `false`.
C10_ExactLiterals ==
    (pc = "data_model" /\ res.k = "Ok") =>
        /\ res.v.t = "Null" => TokenAt(input) = tNone
        /\ res.v.t = "Boolean" => TokenAt(input) \in {tTrue, tFalse}

\* ------------------------------------------------------------ C11: the entry point

\* Whitespace before the value, texts at the value position, and what is
\* left after the value.
EntryLeads == {<<>>, <<" ">>, <<"\n", "\t">>}

\* `"` U+000C U+0008 U+001F `"`: a quoted string of three control
\* characters
tControls == <<"\"", "\f", C0Controls[8], C0Controls[31], "\"">>

\* `[inf,"a\n"]`, the string holding the escape of a line feed
tInfList == <<"[", "i", "n", "f", ",", "\"", "a", "\\", "n", "\"", "]">>

tStruct ==
    <<"N", " ", "{", " ", "a", ":", " ", "1", ",", " ", "b", ":", " ", "t",
      "r", "u", "e", " ", "}">>

\* Texts that are not read as a value: `[1;`, `]`, `A(` and `,`
EntryUnread == {<<"[", "1", ";">>, <<"]">>, <<"A", "(">>, <<",">>}

EntryValues ==
    {tNone, tOne, tQuoted, <<"x">>, <<"[", "1", "]">>, <<"A", "(", "1", ")">>,
     <<"{", "}">>, <<"n", "a", "n">>, <<"-", "0">>,
     <<"1", "e", "4", "0", "0">>, <<"1", "e", "-", "7">>,
     <<"1", "e", "1", "6">>,
     tInfList, tControls, tStruct}
        \cup EntryUnread

EntryRests ==
    {<<>>, <<" ">>, <<" ", "\n">>, <<",", " ", "1">>, <<" ", "]", " ">>,
     <<")", "x">>}

InitEntry ==
    \E lead \in EntryLeads, value \in EntryValues, rest \in EntryRests :
        Start([kind |-> "entry", lead |-> lead, value |-> value,
               rest |-> rest],
              lead \o value \o rest)

SpecEntry == InitEntry /\ [][NextEntry]_vars

\* The text from the first character that is no whitespace on.
TrimStart(s) == Slice(s, FirstNonSpace(s), End(s))

\* C11: root succeeds exactly when the dispatcher succeeds on the input
\* without its leading whitespace, with the dispatcher's value; what is
\* left after the value is root's remainder, less the whitespace that
\* directly follows the value, whatever it is; my_parse panics exactly when
\* root fails, which is on the four texts that are no value, and otherwise
\* returns the JSON text of the value and nothing of the remainder: the
\* text is the one written out here for the value, whatever is left after
\* it (the whitespace that a bare word keeps is part of its value).
C11_Root ==
    (pc \in {"root", "my_parse"} /\ shape.kind = "entry") =>
        LET lead == FirstNonSpace(input) - 1
            d == data_model(TrimStart(input), 1)
            rest == CHOOSE q \in (lead + d.p)..End(input) :
                        /\ \A i \in (lead + d.p)..(q - 1) :
                               input[i] \in {" ", "\t", "\r", "\n"}
                        /\ q <= Len(input) =>
                               input[q] \notin {" ", "\t", "\r", "\n"}
            word == CASE shape.rest = <<" ">> -> <<"\"", "x", " ", "\"">>
                      [] shape.rest = <<" ", "]", " ">> ->
                             <<"\"", "x", " ", "\"">>
                      [] shape.rest = <<" ", "\n">> ->
                             <<"\"", "x", " ", "\\", "n", "\"">>
                      [] OTHER -> <<"\"", "x", "\"">>
            json == CASE shape.value = tNone -> {<<"n", "u", "l", "l">>}
                      [] shape.value = tOne -> {<<"1", ".", "0">>}
                      [] shape.value = tQuoted -> {<<"\"", "a", "\"">>}
                      [] shape.value = <<"x">> -> {word}
                      [] shape.value = <<"[", "1", "]">> ->
                             {<<"[", "1", ".", "0", "]">>}
                      [] shape.value = <<"A", "(", "1", ")">> ->
                             {<<"1", ".", "0">>}
                      [] shape.value = <<"{", "}">> -> {<<"{", "}">>}
                      [] shape.value = <<"n", "a", "n">> ->
                             {<<"n", "u", "l", "l">>}
                      [] shape.value = <<"-", "0">> ->
                             {<<"-", "0", ".", "0">>}
                      [] shape.value = <<"1", "e", "4", "0", "0">> ->
                             {<<"n", "u", "l", "l">>}
                      [] shape.value = <<"1", "e", "-", "7">> ->
                             {<<"1", "e", "-", "7">>}
                      [] shape.value = <<"1", "e", "1", "6">> ->
                             {<<"1", "e", "1", "6">>,
                              <<"1", "e", "+", "1", "6">>}
                      [] shape.value = tControls ->
                             {<<"\"", "\\", "f", "\\", "b", "\\", "u", "0",
                                "0", "1", "f", "\"">>}
                      [] shape.value = tStruct ->
                             {<<"{", "\"", "a", "\"", ":", "1", ".", "0",
                                ",", "\"", "b", "\"", ":", "t", "r", "u",
                                "e", "}">>,
                              <<"{", "\"", "b", "\"", ":", "t", "r", "u",
                                "e", ",", "\"", "a", "\"", ":", "1", ".",
                                "0", "}">>}
                      [] shape.value = tInfList ->
                             {<<"[", "n", "u", "l", "l", ",", "\"", "a",
                                "\\", "n", "\"", "]">>}
                      [] OTHER -> {}
        IN  /\ pc = "root" =>
                /\ res.k = d.k
                /\ res.k = "Ok" => res.v = d.v /\ res.p = rest
            /\ pc = "my_parse" =>
                /\ res.k = (IF d.k = "Ok" THEN "Ok" ELSE "Panic")
                /\ res.k = "Panic" <=> shape.value \in EntryUnread
                /\ res.k = "Ok" => DOMAIN res = {"k", "v"} /\ res.v \in json

\* C11's witness: root has read ` 1 ] ` as 1.0 and returned `] ` as the
\* remainder.
C11_Witness ==
    /\ pc = "root"
    /\ shape.kind = "entry"
    /\ input = <<" ", "1", " ", "]", " ">>
    /\ res.k = "Ok"
    /\ res.p = 4
    /\ res.v.t = "Float"

\* ------------------------------------------------------------ C12: unparseable input

\* The character at the value position, and at most MaxTail characters
\* after it.
FirstChars ==
    {",", "}", ")", "]", "[", "(", "{", "\"", "\\", "*", "-", "+", ".", ":",
     ";", "1", "e", "x", "N", "_", "=", "'"}

MaxTail == 2

TailChars == {",", "]", "(", "\"", "\\", "1", "e", "x", " ", "n"}

\* The empty and the whitespace-only inputs, and every input of leading
\* whitespace, a first character and a tail.
InitReject ==
    \E lead \in {<<>>, <<" ">>, <<"\t", "\n">>} :
        \/ Start([kind |-> "reject", lead |-> lead, text |-> <<>>], lead)
        \/ \E c \in FirstChars, tail \in SeqsUpTo(TailChars, MaxTail) :
               Start([kind |-> "reject", lead |-> lead,
                      text |-> <<c>> \o tail],
                     lead \o <<c>> \o tail)

SpecReject == InitReject /\ [][Next]_vars

\* C12: data_model fails recoverably exactly when the first character of
\* its input that is no whitespace is `,`, `}`, `)` or `]`, and root fails
\* recoverably on exactly these inputs; the empty and the whitespace-only
\* input are read as the empty Text.
C12_Unparseable ==
    (pc # "call" /\ shape.kind = "reject") =>
        /\ res.k = "Error" <=>
               (shape.text # <<>> /\ shape.text[1] \in {",", "}", ")", "]"})
        /\ res.k \in {"Ok", "Error", "Failure"}
        /\ shape.text = <<>> => res = Ok(Len(input) + 1, String(<<>>))

\* C12's witness: root has failed recoverably on ` ]x`.
C12_Witness ==
    /\ pc = "root"
    /\ shape.kind = "reject"
    /\ input = <<" ", "]", "x">>
    /\ res.k = "Error"

\* ------------------------------------------------------------ C13: one value in a tuple-variant

\* The content of a tuple-variant: whitespace, a value text that the
\* dispatcher reads to its end, and what is written between the value and
\* the `)`.
VariantNames == {<<"A">>, tData, tNoneType}

VariantValues ==
    {tOne, <<"\"", "1", "2", "\"">>, <<"x">>, tNone, <<"[", "1", "]">>,
     <<"B", "(", "1", ")">>}

VariantAfters ==
    {<<>>, <<" ">>, <<"\n">>, <<",", " ", "2", "3">>, <<",">>,
     <<" ", ",", "2", "3">>, <<";">>, <<"]">>}

InitVariant ==
    \E name \in VariantNames, before \in {<<>>, <<" ">>},
       v \in VariantValues, after \in VariantAfters,
       rest \in {<<>>, <<",", "1">>} :
        Start([kind |-> "variant", name |-> name, before |-> before, v |-> v,
               after |-> after],
              name \o <<"(">> \o before \o v \o after \o <<")">> \o rest)

SpecVariant == InitVariant /\ [][Next]_vars

\* C13: of `Name(v ...)` the dispatcher either reads a prefix of Name as a
\* null literal, or hands the text to the tuple-variant parser and
\* consults no later alternative: that parser yields the value the
\* dispatcher reads after `(` when `)` is the next character after that
\* value, and fails fatally otherwise.  A comma after v is a fatal failure;
\* whitespace after v is a fatal failure unless v is a wildcard Text, which
\* takes the whitespace (and everything else up to `)`) into the Text.
C13_OneValueAsRead ==
    (pc = "data_model" /\ shape.kind = "variant") =>
        LET at == Len(shape.name) + 2
            V == data_model(input, at)
            wild == shape.v = <<"x">>
        IN  IF tried[Len(tried)] # "parse_tuple_var"
            THEN res = Ok(5, Null) /\ shape.name = tNoneType
            ELSE /\ shape.name # tNoneType
                 /\ IF V.k = "Ok" /\ At(input, V.p) = ")"
                    THEN res = Ok(V.p + 1, V.v)
                    ELSE res.k = "Failure"
                 /\ shape.after = <<>> =>
                        res.k = "Ok" /\ res.v = data_model(shape.v, 1).v
                 /\ At(shape.after, 1) = "," => res.k = "Failure"
                 /\ (shape.after # <<>> /\ ~wild) => res.k = "Failure"
                 /\ (wild /\ shape.after \in {<<" ">>, <<"\n">>, <<";">>}) =>
                        res.k = "Ok" /\ res.v = String(shape.v \o shape.after)

\* C13's witness: `Data( "12", 23)` has failed fatally in the
\* tuple-variant parser.
C13_Witness ==
    /\ pc = "data_model"
    /\ shape.kind = "variant"
    /\ input = tData \o <<"(", " ", "\"", "1", "2", "\"", ",", " ", "2", "3", ")">>
    /\ tried[Len(tried)] = "parse_tuple_var"
    /\ res.k = "Failure"


\* ------------------------------------------------------------ quoted keys

MaxKeyUnits == 2

\* What a quoted key is written from: identifier characters, a space, a
\* space and a letter (for the key `a b`), a punctuation character, and
\* the three escaped units.
KeyUnits ==
    {<<"a">>, <<"_">>, <<"1">>, <<" ">>, <<" ", "b">>, <<"-">>,
     <<"\\", "\"">>, <<"\\", "n">>, <<"\\", "\\">>}

KeyValues == {<<"1">>, tTrue, <<"\"", "s", "\"">>}

KeyText(form, k, v) ==
    (IF form = "struct" THEN tName \o <<" ">> ELSE <<>>)
        \o <<"{", " ", "\"">> \o k \o <<"\"", ":", " ">> \o v \o <<" ", "}">>

InitKey ==
    \E form \in {"hash", "struct"},
       us \in SeqsUpTo(KeyUnits, MaxKeyUnits) \ {<<>>},
       v \in KeyValues :
        Start([kind |-> "key", form |-> form, units |-> us,
               key |-> Flatten(us), v |-> v],
              KeyText(form, Flatten(us), v))

SpecKey == InitKey /\ [][Next]_vars

\* C14: `{ "k": v }` and `Name { "k": v }`, k written from any characters
\* other than an unescaped quote and from the escaped units, are read whole
\* as the Map with the one entry k, as written, for the value of v.
C14_QuotedKeys ==
    (pc = "data_model" /\ shape.kind = "key") =>
        /\ res.k = "Ok"
        /\ res.p = Len(input) + 1
        /\ res.v = Map(shape.key :> data_model(shape.v, 1).v)

\* The keys the code reads: those written from identifier characters and
\* escaped units only; a key holding any other character is a fatal
\* failure of the map.
C14_IdentifierKeys ==
    (pc = "data_model" /\ shape.kind = "key") =>
        IF \A i \in 1..Len(shape.units) :
               shape.units[i] \notin {<<" ">>, <<" ", "b">>, <<"-">>}
        THEN /\ res.k = "Ok"
             /\ res.p = Len(input) + 1
             /\ res.v = Map(shape.key :> data_model(shape.v, 1).v)
        ELSE res.k = "Failure"


\* ------------------------------------------------------------ numbers before `*`

\* Numeric literals: texts that double reads whole.
Literals ==
    {<<"1">>, <<"4", "2">>, <<"1", ".", "5">>, <<"-", "1">>, <<"+", "2">>,
     <<".", "5">>, <<"1", ".">>, <<"1", "e", "5">>, <<"1", "E", "-", "2">>,
     <<"i", "n", "f">>, <<"n", "a", "n">>, <<"-", "0">>,
     <<"1", "e", "4", "0", "0">>, <<"-", "1", "e", "4", "0", "0">>,
     <<"1", "e", "-", "4", "0", "0">>,
     <<"9", "0", "0", "7", "1", "9", "9", "2", "5", "4", "7", "4", "0", "9",
       "9", "3">>,
     <<"4", "2", "4", "2", "4", "2">>}

tStars == <<"*", "*", "*", "*", "*", "*", "*", "*", "*", "*">>

\* What stands directly after the literal, up to the end of the token.
StarTails ==
    {<<"*">>, <<"*", "*">>, <<"*", " ">>, <<"*", "x", " ", "y">>,
     <<"*", "\\", "x">>, <<"*", "1">>, tStars}

OtherTails == {<<>>, <<"x">>, <<" ">>, <<"-">>, <<" ", "*">>, <<"x", "*">>}

tCardNumber == <<"C", "a", "r", "d", "N", "u", "m", "b", "e", "r">>

\* What stands before and after the token.
StarContexts ==
    {<< <<>>, <<>> >>,
     << <<" ">>, <<",", " ", "1">> >>,
     << <<>>, <<"]">> >>,
     << <<"[">>, <<",", " ", "2", "]">> >>,
     << tCardNumber \o <<"(">>, <<")">> >>,
     << tField, <<"}">> >>}

InitStar ==
    \E lit \in Literals, tail \in StarTails \cup OtherTails,
       c \in StarContexts :
        Start([kind |-> "star", lit |-> lit, tail |-> tail,
               before |-> c[1], after |-> c[2]],
              c[1] \o lit \o tail \o c[2])

SpecStar == InitStar /\ [][Next]_vars

\* C15: of a numeric literal with `*` directly after it parse_float fails
\* recoverably, and the dispatcher reads the whole token, up to the next
\* `,`, `}`, `)` or `]` or the end, as Text: never a Number, never a fatal
\* failure; `CardNumber(424242**********)` is the Text `424242**********`.
\* With any other character after the literal parse_float is double.
C15_StarGuard ==
    (pc = "data_model" /\ shape.kind = "star") =>
        LET at == Len(shape.before) + 1
            token == shape.lit \o shape.tail
            inner == data_model(input, at)
        IN  /\ double(shape.lit, 1) = Ok(Len(shape.lit) + 1,
                                         double(shape.lit, 1).v)
            /\ IF shape.tail \in StarTails
               THEN /\ parse_float(input, at) = Error
                    /\ inner = Ok(at + Len(token), String(token))
                    /\ res.k = "Ok"
                    /\ shape.before \in {<<>>, <<" ">>} => res = inner
                    /\ shape.before = <<"[">> =>
                           res.v = Vec(<<String(token),
                                         Float(double(<<"2">>, 1).v)>>)
                    /\ shape.before = tCardNumber \o <<"(">> =>
                           res.v = String(token)
                    /\ shape.before = tField =>
                           res.v = Map(<<"f">> :> String(token))
               ELSE /\ parse_float(input, at) = double(input, at)
                    /\ inner = Ok(at + Len(shape.lit),
                                  Float(double(shape.lit, 1).v))

\* C15's witness: `CardNumber(424242**********)` was read as the Text
\* `424242**********`.
C15_Witness ==
    /\ pc = "data_model"
    /\ shape.kind = "star"
    /\ input = tCardNumber \o <<"(", "4", "2", "4", "2", "4", "2">>
                   \o tStars \o <<")">>
    /\ parse_float(input, 12) = Error
    /\ tried[Len(tried)] = "parse_tuple_var"
    /\ res = Ok(Len(input) + 1,
                String(<<"4", "2", "4", "2", "4", "2">> \o tStars))


\* ------------------------------------------------------------ trailing commas

MaxTrail == 2

TrailValues == {<<"1">>, <<"\"", "s", "\"">>, <<"x">>, tTrue}

\* form, opening text, closing delimiter, kind of element, alternative
TrailForms ==
    {[form |-> "array", open |-> <<"[">>, close |-> "]",
      elem |-> "value", alternative |-> "parse_array"],
     [form |-> "tuple", open |-> <<"(">>, close |-> ")",
      elem |-> "value", alternative |-> "parse_array_tuple"],
     [form |-> "hash", open |-> <<"{">>, close |-> "}",
      elem |-> "hash", alternative |-> "parse_hash"],
     [form |-> "struct", open |-> tName \o <<" ", "{">>, close |-> "}",
      elem |-> "struct", alternative |-> "parse_struct"]}

TrailKey(i) == IF i = 1 THEN <<"a">> ELSE IF i = 2 THEN <<"b">> ELSE <<"c">>

\* The i-th element as written: the value, or the entry of the i-th key.
TrailElem(f, vs, i) ==
    IF f.elem = "value" THEN vs[i]
    ELSE IF f.elem = "hash"
        THEN <<" ", "\"">> \o TrailKey(i) \o <<"\"", ":", " ">> \o vs[i]
    ELSE <<" ">> \o TrailKey(i) \o <<":", " ">> \o vs[i]

RECURSIVE TrailElems(_, _, _, _)
TrailElems(f, vs, i, before) ==
    IF i > Len(vs) THEN <<>>
    ELSE IF i = Len(vs) THEN TrailElem(f, vs, i)
    ELSE TrailElem(f, vs, i) \o before \o <<",">>
             \o (IF f.elem = "value" THEN <<" ">> ELSE <<>>)
             \o TrailElems(f, vs, i + 1, before)

TrailText(f, vs, before, trailing, gap) ==
    f.open \o TrailElems(f, vs, 1, before)
        \o (IF trailing THEN before \o <<",">> ELSE <<>>)
        \o gap \o <<f.close>>

InitTrail ==
    \E f \in TrailForms, vs \in SeqsUpTo(TrailValues, MaxTrail) \ {<<>>},
       before \in {<<>>, <<" ">>},
       gap \in {<<>>, <<" ">>, <<"\n", " ">>},
       trailing \in BOOLEAN :
        Start([kind |-> "trail", f |-> f, vs |-> vs, before |-> before,
               gap |-> gap, trailing |-> trailing],
              TrailText(f, vs, before, trailing, gap))

SpecTrail == InitTrail /\ [][Next]_vars

\* C16: of a list, a tuple, a quoted-key map or a struct map whose last
\* element is followed by a comma, directly or after whitespace, and then,
\* directly or after whitespace, by the closing delimiter, the list of
\* elements is read up to before that comma, which is given back; the
\* closing delimiter does not match there, and the form fails fatally, no
\* later alternative being tried.  Without the trailing comma the same
\* text is read whole.
C16_TrailingComma ==
    (pc = "data_model" /\ shape.kind = "trail") =>
        LET f == shape.f
            list == separated_list0(f.elem, input, Len(f.open) + 1)
            comma == Len(input) - Len(shape.gap) - 1
        IN  /\ tried[Len(tried)] = f.alternative
            /\ list.k = "Ok"
            /\ Len(list.v) = Len(shape.vs)
            /\ IF shape.trailing
               THEN /\ input[comma] = ","
                    /\ spacer(input, list.p).p = comma
                    /\ SpacedChar(input, list.p, f.close).k = "Error"
                    /\ res.k = "Failure"
               ELSE /\ SpacedChar(input, list.p, f.close).k = "Ok"
                    /\ res.k = "Ok"
                    /\ res.p = Len(input) + 1

\* C16's witness: `Name { a: 1, }` has failed fatally in the named-struct
\* parser.
C16_Witness ==
    /\ pc = "data_model"
    /\ shape.kind = "trail"
    /\ input = tName \o <<" ", "{", " ", "a", ":", " ", "1", ",", " ", "}">>
    /\ tried[Len(tried)] = "parse_struct"
    /\ res.k = "Failure"


\* ------------------------------------------------------------ placeholders with spaces

MaxWords == 3

\* The words of a placeholder's text; the empty word gives a leading, a
\* doubled or a trailing space.
Words == {<<"a">>, <<"4", "1">>, <<"*", "*", "*">>, <<>>}

RECURSIVE SpacedWords(_)
SpacedWords(ws) ==
    IF Len(ws) = 1 THEN ws[1] ELSE ws[1] \o <<" ">> \o SpacedWords(Tail(ws))

tEncrypted == <<"E", "n", "c", "r", "y", "p", "t", "e", "d">>

tBytes == <<"b", "y", "t", "e", "s">>

\* Two words or more: texts with a space.
WordLists ==
    {ws \in SeqsUpTo(Words, MaxWords) : Len(ws) >= 2}
        \cup {<<tEncrypted, <<"4", "1">>, <<"o", "f">>, tBytes>>}

InitSpaced ==
    \E ws \in WordLists, ctx \in MaskContexts :
        Start([kind |-> "spaced", prefix |-> ctx[1], words |-> ws,
               x |-> SpacedWords(ws), suffix |-> ctx[2]],
              ctx[1] \o MaskedToken(SpacedWords(ws)) \o ctx[2])

SpecSpaced == InitSpaced /\ [][Next]_vars

\* C17: at a value position that holds `*** X ***`, where the text between
\* `*** ` and the first ` ***` after it has a space (or is empty), the
\* masked-value recognizer fails recoverably and the dispatcher returns as
\* Text, verbatim, everything from the first `*` up to the next `,`, `}`,
\* `)` or `]` or the end of the input, whitespace before that delimiter
\* included.  Where the first ` ***` follows one word without a space,
\* `*** word ***` is a masked value and what follows it is left unread.
C17_SpacedPlaceholder ==
    (pc = "data_model" /\ shape.kind = "spaced") =>
        LET at == Len(shape.prefix) + 1
            stop == ScanUntil(input, at, WildcardStops)
            w == shape.words
        IN  IF w[1] # <<>> /\ w[2] = <<"*", "*", "*">>
            THEN /\ masked_data(input, at).k = "Ok"
                 /\ data_model(input, at) =
                        Ok(at + Len(w[1]) + 8, String(MaskedText))
                 /\ At(input, at + Len(w[1]) + 8) = " "
            ELSE /\ masked_data(input, at) = Error
                 /\ data_model(input, at) =
                        Ok(stop, String(Slice(input, at, stop)))
                 /\ shape.prefix = tField =>
                        res.v = Map(<<"f">> :>
                                    String(MaskedToken(shape.x) \o <<" ">>))

\* C17's witness: the field of `A { f: *** Encrypted 41 of bytes *** }` is
\* the Text `*** Encrypted 41 of bytes *** `.
C17_Witness ==
    /\ pc = "data_model"
    /\ shape.kind = "spaced"
    /\ shape.prefix = tField
    /\ shape.words = <<tEncrypted, <<"4", "1">>, <<"o", "f">>, tBytes>>
    /\ masked_data(input, Len(tField) + 1) = Error
    /\ res = Ok(Len(input) + 1,
                Map(<<"f">> :> String(MaskedToken(shape.x) \o <<" ">>)))


\* ------------------------------------------------------------ recursion

(***************************************************************************)
(* The calls of data_model made by data_model: for each alternative the    *)
(* dispatcher consults at p, the positions at which that alternative hands *)
(* the rest of the input to data_model again.                              *)
(***************************************************************************)

\* preceded(spacer, data_model) after the key and its colon
KeyValueCalls(s, key) ==
    IF key.k # "Ok" THEN {}
    ELSE IF SpacedChar(s, key.p, ":").k # "Ok" THEN {}
    ELSE {spacer(s, SpacedChar(s, key.p, ":").p).p}

\* The element parser at i: data_model itself, or a key, a colon and
\* data_model.
ElementCalls(kind, s, i) ==
    IF kind = "value" THEN {i}
    ELSE IF kind = "hash"
        THEN KeyValueCalls(s, parse_string(s, spacer(s, i).p))
    ELSE KeyValueCalls(s, struct_key(s, spacer(s, i).p))

\* separated_list0 from i on: the element at i and, that element read and
\* a separator after it, the elements after the separator.
RECURSIVE ListCalls(_, _, _)
ListCalls(kind, s, i) ==
    ElementCalls(kind, s, i) \cup
        (IF Element(kind, s, i).k # "Ok" THEN {}
         ELSE IF SpacedChar(s, Element(kind, s, i).p, ",").k # "Ok" THEN {}
         ELSE ListCalls(kind, s, SpacedChar(s, Element(kind, s, i).p, ",").p))

\* DelimitedCalls with the list read from the opening delimiter on
DelimitedCalls_unopened(kind, s, p, open) ==
    IF At(s, p) # open THEN {} ELSE ListCalls(kind, s, p)

\* preceded(char(open), cut(terminated(separated_list0(..), ..))): the
\* list is read after the opening delimiter.
DelimitedCalls(kind, s, p, open) ==
    IF At(s, p) # open THEN {} ELSE ListCalls(kind, s, p + 1)

\* The named forms, name being parse_str's result.
NamedCalls(alternative, s, name) ==
    IF name.k # "Ok" THEN {}
    ELSE IF alternative = "parse_tuple_var"
        THEN IF At(s, name.p) # "(" THEN {} ELSE {name.p + 1}
    ELSE IF alternative = "parse_struct"
        THEN DelimitedCalls("struct", s,
                            spacer(s, spacer(s, name.p).p).p, "{")
    ELSE DelimitedCalls("value", s, spacer(s, name.p).p, "[")

AlternativeCalls(alternative, s, p) ==
    CASE alternative = "parse_array_tuple" ->
             DelimitedCalls("value", s, p, "(")
      [] alternative = "parse_array" -> DelimitedCalls("value", s, p, "[")
      [] alternative = "parse_hash" -> DelimitedCalls("hash", s, p, "{")
      [] alternative \in {"parse_tuple_var", "parse_struct",
                          "parse_named_array"} ->
             NamedCalls(alternative, s, parse_str(s, p))
      [] OTHER -> {}

\* consulted are the alternatives alt consulted at p
AltCalls(s, p, consulted) ==
    UNION {AlternativeCalls(consulted[i], s, p) : i \in 1..Len(consulted)}

\* The positions at which data_model, called at p, calls data_model.
Calls(s, p) == AltCalls(s, spacer(s, p).p, alt(s, spacer(s, p).p).tried)

\* The calls made at a position after the caller's.
Deeper(s, p) == {q \in Calls(s, p) : q > p}

Max(S) == CHOOSE x \in S : \A y \in S : y <= x

\* How deep the calls of data_model below the call at p are nested.
RECURSIVE Depth(_, _)
Depth(s, p) ==
    IF Deeper(s, p) = {} THEN 0
    ELSE 1 + Max({Depth(s, q) : q \in Deeper(s, p)})

\* The positions of all calls of data_model below and including that at p.
RECURSIVE CallTree(_, _)
CallTree(s, p) == {p} \cup UNION {CallTree(s, q) : q \in Deeper(s, p)}

Openings(s) == Cardinality({i \in 1..Len(s) : s[i] \in Openers})

MaxNest == 2

\* What opens a composite, up to its first value position, and what
\* closes it.
NestArray == [open |-> <<"[">>, close |-> <<"]">>]

NestTuple == [open |-> <<"(">>, close |-> <<")">>]

NestHash == [open |-> <<"{", "\"", "a", "\"", ":">>, close |-> <<"}">>]

NestVariant == [open |-> <<"A", "(">>, close |-> <<")">>]

NestStruct ==
    [open |-> <<"A", " ", "{", "a", ":", " ">>, close |-> <<" ", "}">>]

NestNamedArray == [open |-> <<"A", " ", "[">>, close |-> <<"]">>]

\* a list opened, its first element read: the value is the second element
NestSecond == [open |-> <<"[", "1", ",", " ">>, close |-> <<"]">>]

NestForms ==
    {NestArray, NestTuple, NestHash, NestVariant, NestStruct,
     NestNamedArray, NestSecond}

\* Some deeper nestings.
DeepNests ==
    {<<NestSecond, NestStruct, NestTuple>>,
     <<NestVariant, NestVariant, NestHash>>,
     <<NestArray, NestHash, NestVariant, NestNamedArray>>,
     <<NestTuple, NestTuple, NestTuple, NestTuple>>}

RECURSIVE NestText(_, _, _)
NestText(fs, core, closed) ==
    IF Len(fs) = 0 THEN core
    ELSE fs[1].open \o NestText(Tail(fs), core, closed)
             \o (IF closed THEN fs[1].close ELSE <<>>)

InitNest ==
    \E fs \in SeqsUpTo(NestForms, MaxNest) \cup DeepNests,
       core \in {<<>>, <<"1">>, <<"x">>, tQuoted},
       closed \in BOOLEAN :
        Start([kind |-> "nest", forms |-> fs, core |-> core,
               closed |-> closed],
              NestText(fs, core, closed))

SpecNest == InitNest /\ [][Next]_vars

\* C18: root returns, with a success or a failure; every call of
\* data_model made by data_model is made at a position after the caller's,
\* an opening delimiter standing in between; and the calls are nested no
\* deeper than the input has opening delimiters (as deep as the composites
\* of the input are nested).
C18_Termination ==
    (pc = "root" /\ shape.kind = "nest") =>
        LET start == spacer(input, 1).p
        IN  /\ res.k \in {"Ok", "Error", "Failure"}
            /\ \A p \in CallTree(input, start) :
                   \A q \in Calls(input, p) :
                       /\ q > p
                       /\ \E i \in p..(q - 1) : input[i] \in Openers
            /\ Depth(input, start) <= Openings(input)
            /\ Depth(input, start) = Len(shape.forms)

\* C18's witness: root has read `[1, A { a: ("a") }]`, its calls of
\* data_model nested three deep.
C18_Witness ==
    /\ pc = "root"
    /\ shape.kind = "nest"
    /\ input = <<"[", "1", ",", " ", "A", " ", "{", "a", ":", " ", "(">>
                   \o tQuoted \o <<")", " ", "}", "]">>
    /\ res.k = "Ok"
    /\ Depth(input, 1) = 3
    /\ Openings(input) = 3

=============================================================================
